---------------------------- MODULE Spec2Model ----------------------------
(***************************************************************************)
(* A model of pabulib/checker.py: the Checker class that validates         *)
(* participatory-budgeting (.pb) files and accumulates a report.           *)
(*                                                                         *)
(* Python strings whose content the code inspects (numbers, dates) are     *)
(* sequences of one-character strings; dictionaries are functions whose    *)
(* domain is the set of keys, ordered dictionaries are sequences of        *)
(* records.                                                                *)
(***************************************************************************)
EXTENDS Integers, Sequences, FiniteSets, TLC

VARIABLES
    files,              \* the list handed to process_files
    pc,                 \* position of process_files / run_checks
    index,              \* enumerate(files, start=1): the current entry
    identifier,         \* identifier of the current entry
    lines,              \* the current entry's lines
    results,            \* self.results
    error_counters,     \* self.error_counters
    file_results,       \* self.file_results
    meta,               \* self.meta
    projects,           \* self.projects
    votes,              \* self.votes
    votes_in_projects,  \* self.votes_in_projects
    scores_in_projects, \* self.scores_in_projects
    counted_votes,      \* self.counted_votes
    counted_scores,     \* self.counted_scores
    emitted,            \* history: the add_error calls of the current pass, in order
    hist,               \* history: one record per entry whose pass has ended
    run,                \* which Checker object is running (1 or 2)
    calls,              \* process_files calls made on the current Checker
    prev_report         \* the report returned by the first Checker

vars == << files, pc, index, identifier, lines, results, error_counters,
           file_results, meta, projects, votes, votes_in_projects,
           scores_in_projects, counted_votes, counted_scores, emitted, hist,
           run, calls, prev_report >>

-----------------------------------------------------------------------------
(* Bounds of the model.                                                    *)

MaxFiles == 2
MaxCalls == 2

-----------------------------------------------------------------------------
(* Python dictionaries.                                                    *)

EmptyDict == << >>

Put(d, k, v) == [x \in (DOMAIN d) \cup {k} |-> IF x = k THEN v ELSE d[x]]

GetOr(d, k, default) == IF k \in DOMAIN d THEN d[k] ELSE default

(* An ordered mapping of field name -> raw value: a sequence of pairs.     *)
Keys(m) == {m[i].k : i \in 1..Len(m)}

Has(m, key) == key \in Keys(m)

Get(m, key) == m[CHOOSE i \in 1..Len(m) : m[i].k = key].v

\* dict.get(key): None when the key is absent.  None and "" are both falsy
\* and the code only tests the result for truth before using it.
GetOrNone(m, key) == IF Has(m, key) THEN Get(m, key) ELSE << >>

SetVal(m, key, val) == [i \in 1..Len(m) |-> IF m[i].k = key THEN [k |-> key, v |-> val] ELSE m[i]]

Truthy(s) == s # << >>

-----------------------------------------------------------------------------
(* Python strings and the conversions int(), float(), math.floor().        *)

Digit == {"0", "1", "2", "3", "4", "5", "6", "7", "8", "9"}

DigitVal(c) ==
    CASE c = "0" -> 0 [] c = "1" -> 1 [] c = "2" -> 2 [] c = "3" -> 3
      [] c = "4" -> 4 [] c = "5" -> 5 [] c = "6" -> 6 [] c = "7" -> 7
      [] c = "8" -> 8 [] c = "9" -> 9

RECURSIVE NatOf(_)
NatOf(s) ==
    IF s = << >> THEN 0
    ELSE NatOf(SubSeq(s, 1, Len(s) - 1)) * 10 + DigitVal(s[Len(s)])

IsDigits(s) == Len(s) > 0 /\ \A i \in 1..Len(s) : s[i] \in Digit

\* int(s) raises ValueError unless s is a decimal numeral (the alphabet of
\* the model has no sign, blank or underscore).
int_ok(s) == IsDigits(s)

int(s) == NatOf(s)

Count(s, c) == Cardinality({i \in 1..Len(s) : s[i] = c})

Contains(s, c) == \E i \in 1..Len(s) : s[i] = c

\* float(s) raises ValueError unless s is digits with at most one point and
\* at least one digit.
float_ok(s) ==
    /\ \A i \in 1..Len(s) : s[i] \in Digit \cup {"."}
    /\ Count(s, ".") <= 1
    /\ \E i \in 1..Len(s) : s[i] \in Digit

\* The value of float(s) in hundredths.  The numerals of the model carry at
\* most two decimals and costs are whole numbers, so every sum, difference
\* and comparison the code makes on such floats is exact.
float(s) ==
    LET d  == IF Contains(s, ".") THEN CHOOSE i \in 1..Len(s) : s[i] = "." ELSE Len(s) + 1
        ip == SubSeq(s, 1, d - 1)
        fp == SubSeq(s, d + 1, Len(s))
    IN  NatOf(ip) * 100
          + (IF Len(fp) = 0 THEN 0
             ELSE IF Len(fp) = 1 THEN NatOf(fp) * 10
             ELSE NatOf(SubSeq(fp, 1, 2)))

floor(cents) == cents \div 100

\* str.replace(",", ".")
replace_comma(s) == [i \in 1..Len(s) |-> IF s[i] = "," THEN "." ELSE s[i]]

\* str.split(",")[0]
split_first(s) ==
    IF Contains(s, ",")
    THEN SubSeq(s, 1, (CHOOSE i \in 1..Len(s) : s[i] = "," /\ \A j \in 1..(i - 1) : s[j] # ",") - 1)
    ELSE s

-----------------------------------------------------------------------------
(* The report.                                                             *)

\* Keys of self.results: the one-based index of an entry given as raw
\* content (an int), or a string.
IndexId(i) == [name |-> "", index |-> i]
NameId(n) == [name |-> n, index |-> 0]

MetadataKey == NameId("metadata")
SummaryKey == NameId("summary")

LooksCorrect == [kind |-> "File looks correct!"]

FileRecord(fr) == [kind |-> "file_results", errors |-> fr]

Details(text, nums, raw) == [text |-> text, nums |-> nums, raw |-> raw]

\* A message that lists field names.
FieldDetails(text, names, raw) == [text |-> text, names |-> names, raw |-> raw]

Diag(type, details) == [type |-> type, details |-> details]

\* Checker.__post_init__
post_init_results ==
    (MetadataKey :> [kind |-> "metadata", processed |-> 0, valid |-> 0, invalid |-> 0])
      @@ (SummaryKey :> [kind |-> "summary", counts |-> EmptyDict])

\* The part of the Checker that add_error reads and writes.
CheckerState == [file_results |-> file_results, error_counters |-> error_counters,
                 results |-> results, emitted |-> emitted, raised |-> FALSE]

\* Checker.add_error.  The last statement raises when results["summary"] is
\* no longer the counter map; the two statements before it have run.
add_error(st, type, details) ==
    LET current_count == GetOr(st.error_counters, type, 1)
        fr == IF type \in DOMAIN st.file_results
              THEN [st.file_results EXCEPT ![type] = Put(@, current_count, details)]
              ELSE Put(st.file_results, type, (current_count :> details))
        ec == Put(st.error_counters, type, current_count + 1)
        summary == st.results[SummaryKey]
    IN  IF st.raised THEN st
        ELSE IF summary.kind # "summary"
        THEN [st EXCEPT !.file_results = fr, !.error_counters = ec, !.raised = TRUE,
                        !.emitted = Append(@, Diag(type, details))]
        ELSE [st EXCEPT !.file_results = fr, !.error_counters = ec,
                        !.results = [@ EXCEPT ![SummaryKey] =
                            [@ EXCEPT !.counts = Put(@, type, GetOr(@, type, 0) + 1)]],
                        !.emitted = Append(@, Diag(type, details))]

RECURSIVE add_errors(_, _)
add_errors(st, diags) ==
    IF diags = << >> \/ st.raised THEN st
    ELSE add_errors(add_error(st, Head(diags).type, Head(diags).details), Tail(diags))

-----------------------------------------------------------------------------
(* More string operations.                                                 *)

\* str.split(","): the pieces between the commas (never an empty list).
RECURSIVE split(_)
split(s) ==
    IF ~Contains(s, ",") THEN << s >>
    ELSE LET i == CHOOSE i \in 1..Len(s) : s[i] = "," /\ \A j \in 1..(i - 1) : s[j] # ","
         IN  << SubSeq(s, 1, i - 1) >> \o split(SubSeq(s, i + 1, Len(s)))

\* ",".join(pieces)
RECURSIVE join(_)
join(pieces) ==
    IF pieces = << >> THEN << >>
    ELSE IF Len(pieces) = 1 THEN pieces[1]
    ELSE pieces[1] \o << "," >> \o join(Tail(pieces))

DigitChar(n) ==
    CASE n = 0 -> "0" [] n = 1 -> "1" [] n = 2 -> "2" [] n = 3 -> "3"
      [] n = 4 -> "4" [] n = 5 -> "5" [] n = 6 -> "6" [] n = 7 -> "7"
      [] n = 8 -> "8" [] n = 9 -> "9"

\* str(n) for a natural n
RECURSIVE str(_)
str(n) == IF n < 10 THEN << DigitChar(n) >> ELSE str(n \div 10) \o << DigitChar(n % 10) >>

\* f"{n:0wd}": str(n) padded with zeros on the left to width w
RECURSIVE zero_pad(_, _)
zero_pad(s, w) == IF Len(s) >= w THEN s ELSE zero_pad(<< "0" >> \o s, w)

\* The elements of a set of integers in ascending order.
RECURSIVE sorted_ints(_)
sorted_ints(S) ==
    IF S = {} THEN << >>
    ELSE LET m == CHOOSE x \in S : \A y \in S : x <= y
         IN  << m >> \o sorted_ints(S \ {m})

\* The elements of a sequence as a set.
Range(s) == {s[i] : i \in 1..Len(s)}

-----------------------------------------------------------------------------
(* check_empty_lines                                                       *)

\* line.strip() on the lines of the model: "x" is a line with content, ""
\* an empty line and " " a line of white space.
strip(line) == IF line = " " THEN "" ELSE line

\* lines.pop() when the last line is blank
lines_popped(ls) ==
    IF ls # << >> /\ strip(ls[Len(ls)]) = "" THEN SubSeq(ls, 1, Len(ls) - 1) ELSE ls

empty_lines(ls) == sorted_ints({i \in 1..Len(ls) : strip(ls[i]) = ""})

check_empty_lines(ls) ==
    LET popped == lines_popped(ls)
        empty == empty_lines(popped)
    IN  [lines |-> popped,
         diags |-> IF empty # << >>
                   THEN << Diag("empty lines", Details("contains empty lines at", empty, << >>)) >>
                   ELSE << >>]

-----------------------------------------------------------------------------
(* check_if_commas_in_floats                                               *)

RECURSIVE commas_in_costs(_)
commas_in_costs(ps) ==
    IF ps = << >> THEN [projects |-> << >>, diags |-> << >>]
    ELSE LET p == Head(ps)
             cost == Get(p.data, "cost")
             rest == commas_in_costs(Tail(ps))
         IN  IF Contains(cost, ",")
             THEN [projects |-> << [p EXCEPT !.data = SetVal(@, "cost", split_first(cost))] >>
                                  \o rest.projects,
                   diags |-> << Diag("comma in float!", Details("in project, cost", << >>, << p.id, cost >>)) >>
                                  \o rest.diags]
             ELSE [projects |-> << p >> \o rest.projects, diags |-> rest.diags]

check_if_commas_in_floats(m, ps) ==
    LET budget == Get(m, "budget")
        m1 == IF Contains(budget, ",") THEN SetVal(m, "budget", replace_comma(budget)) ELSE m
        d1 == IF Contains(budget, ",")
              THEN << Diag("comma in float!", Details("in budget", << >>, << >>)) >>
              ELSE << >>
        msc == GetOrNone(m, "max_sum_cost")
        m2 == IF Truthy(msc) /\ Contains(msc, ",")
              THEN SetVal(m1, "max_sum_cost", replace_comma(msc)) ELSE m1
        d2 == IF Truthy(msc) /\ Contains(msc, ",")
              THEN << Diag("comma in float!", Details("in max_sum_cost", << >>, << >>)) >>
              ELSE << >>
        costs == commas_in_costs(ps)
    IN  [meta |-> m2, projects |-> costs.projects, diags |-> d1 \o d2 \o costs.diags]

-----------------------------------------------------------------------------
(* check_budgets                                                           *)

\* The first loop of check_budgets, lines 77-94.
RECURSIVE budgets_loop(_, _, _)
budgets_loop(ps, budget_available, acc) ==
    IF ps = << >> \/ acc.exc THEN acc
    ELSE LET p == Head(ps)
             selected_field == GetOrNone(p.data, "selected")
             cost == Get(p.data, "cost")
         IN  IF ~int_ok(cost) \/ (Truthy(selected_field) /\ ~int_ok(selected_field))
             THEN [acc EXCEPT !.exc = TRUE]
             ELSE LET project_cost == int(cost)
                      is_selected == Truthy(selected_field) /\ int(selected_field) = 1
                      d == IF project_cost = 0
                           THEN << Diag("project with no cost", Details("has not cost", << >>, << p.id >>)) >>
                           ELSE IF project_cost > budget_available
                           THEN << Diag("single project exceeded whole budget",
                                        Details("has exceeded the whole budget",
                                                << project_cost, budget_available >>, << p.id >>)) >>
                           ELSE << >>
                  IN  budgets_loop(Tail(ps), budget_available,
                          [diags |-> acc.diags \o d,
                           budget_spent |-> acc.budget_spent + (IF is_selected THEN project_cost ELSE 0),
                           all_projects_cost |-> acc.all_projects_cost + project_cost,
                           exc |-> FALSE])

\* The unused-budget loop, lines 110-120.  The costs were converted by the
\* first loop, so int() cannot raise here.
RECURSIVE unused_budget(_, _)
unused_budget(ps, budget_remaining) ==
    IF ps = << >> THEN << >>
    ELSE LET p == Head(ps)
             selected_field == GetOrNone(p.data, "selected")
             hit == /\ Truthy(selected_field)
                    /\ int(selected_field) = 0
                    /\ int(Get(p.data, "cost")) < budget_remaining
         IN  (IF hit
              THEN << Diag("unused budget", Details("can be funded but it's not selected", << >>, << p.id >>)) >>
              ELSE << >>) \o unused_budget(Tail(ps), budget_remaining)

check_budgets(m, ps) ==
    LET budget == replace_comma(Get(m, "budget")) IN
    IF ~float_ok(budget) THEN [diags |-> << >>, exc |-> TRUE]
    ELSE
    LET budget_available == floor(float(budget))
        loop == budgets_loop(ps, budget_available,
                    [diags |-> << >>, budget_spent |-> 0, all_projects_cost |-> 0, exc |-> FALSE])
        exceeded == IF loop.budget_spent > budget_available
                    THEN << Diag("budget exceeded",
                                 Details("cost of selected projects",
                                         << budget_available, loop.budget_spent >>, << >>)) >>
                    ELSE << >>
        ff == GetOrNone(m, "fully_funded")
    IN  IF loop.exc THEN [diags |-> loop.diags, exc |-> TRUE]
        ELSE IF Truthy(ff) /\ ~int_ok(ff) THEN [diags |-> loop.diags \o exceeded, exc |-> TRUE]
        ELSE IF Truthy(ff) /\ int(ff) = 1 THEN [diags |-> loop.diags \o exceeded, exc |-> FALSE]
        ELSE [diags |-> loop.diags \o exceeded
                          \o (IF budget_available > loop.all_projects_cost
                              THEN << Diag("all projects funded",
                                           Details("budget, cost of all projects",
                                                   << budget_available, loop.all_projects_cost >>, << >>)) >>
                              ELSE << >>)
                          \o unused_budget(ps, budget_available - loop.budget_spent),
              exc |-> FALSE]

-----------------------------------------------------------------------------
(* check_number_of_votes, check_number_of_projects                         *)

check_number_of_votes(m, vs) ==
    LET meta_votes == Get(m, "num_votes") IN
    IF ~int_ok(meta_votes) THEN [diags |-> << >>, exc |-> TRUE]
    ELSE [diags |-> IF int(meta_votes) # Len(vs)
                    THEN << Diag("different number of votes",
                                 Details("votes number in META vs counted from file",
                                         << Len(vs) >>, << meta_votes >>)) >>
                    ELSE << >>,
          exc |-> FALSE]

check_number_of_projects(m, ps) ==
    LET meta_projects == Get(m, "num_projects") IN
    IF ~int_ok(meta_projects) THEN [diags |-> << >>, exc |-> TRUE]
    ELSE [diags |-> IF int(meta_projects) # Len(ps)
                    THEN << Diag("different number of projects",
                                 Details("projects number in meta vs counted from file",
                                         << Len(ps) >>, << meta_projects >>)) >>
                    ELSE << >>,
          exc |-> FALSE]

-----------------------------------------------------------------------------
(* check_duplicated_votes (defined by the class, not called by run_checks) *)

RECURSIVE check_duplicated_votes(_)
check_duplicated_votes(vs) ==
    IF vs = << >> THEN << >>
    ELSE LET ballot == split(Get(Head(vs).data, "vote"))
         IN  (IF Len(ballot) > Cardinality(Range(ballot))
              THEN << Diag("vote with duplicated projects",
                           Details("duplicated projects in a vote", << >>, << Head(vs).voter >> \o ballot)) >>
              ELSE << >>) \o check_duplicated_votes(Tail(vs))

-----------------------------------------------------------------------------
(* check_vote_length                                                       *)

\* a or b or c
or3(a, b, c) == IF Truthy(a) THEN a ELSE IF Truthy(b) THEN b ELSE c

\* The loop of lines 164-175.  The branch for min_length builds a type and
\* a message and does not hand them to add_error.
RECURSIVE vote_length_loop(_, _, _, _)
vote_length_loop(vs, max_length, min_length, acc) ==
    IF vs = << >> \/ acc.exc THEN acc
    ELSE LET voter_votes == Len(split(Get(Head(vs).data, "vote")))
         IN  IF Truthy(max_length) /\ ~int_ok(max_length) THEN [acc EXCEPT !.exc = TRUE]
             ELSE LET d == IF Truthy(max_length) /\ voter_votes > int(max_length)
                           THEN << Diag("vote length exceeded",
                                        Details("max vote length, number of voter votes",
                                                << voter_votes >>, << Head(vs).voter, max_length >>)) >>
                           ELSE << >>
                  IN  IF Truthy(min_length) /\ ~int_ok(min_length)
                      THEN [diags |-> acc.diags \o d, exc |-> TRUE]
                      ELSE vote_length_loop(Tail(vs), max_length, min_length,
                               [diags |-> acc.diags \o d, exc |-> FALSE])

check_vote_length(m, vs) ==
    LET max_length == or3(GetOrNone(m, "max_length"), GetOrNone(m, "max_length_unit"),
                          GetOrNone(m, "max_length_district"))
        min_length == or3(GetOrNone(m, "min_length"), GetOrNone(m, "min_length_unit"),
                          GetOrNone(m, "min_length_district"))
    IN  IF Truthy(max_length) \/ Truthy(min_length)
        THEN vote_length_loop(vs, max_length, min_length, [diags |-> << >>, exc |-> FALSE])
        ELSE [diags |-> << >>, exc |-> FALSE]

-----------------------------------------------------------------------------
(* check_votes_and_scores                                                  *)

RECURSIVE all_references(_)
all_references(vs) ==
    IF vs = << >> THEN << >>
    ELSE split(Get(Head(vs).data, "vote")) \o all_references(Tail(vs))

\* The distinct elements of a sequence, in the order of their first occurrence.
RECURSIVE first_occurrences(_)
first_occurrences(s) ==
    IF s = << >> THEN << >>
    ELSE LET r == first_occurrences(SubSeq(s, 1, Len(s) - 1))
         IN  IF s[Len(s)] \in Range(r) THEN r ELSE Append(r, s[Len(s)])

\* utils.count_votes_per_project: for each voter, split `vote` on "," and
\* increment the counter of each referenced id.
count_votes_per_project(vs) ==
    LET refs == all_references(vs)
        ks == first_occurrences(refs)
    IN  [i \in 1..Len(ks) |-> [k |-> ks[i], v |-> Count(refs, ks[i])]]

\* counted[project_id] for a map that yields 0 for an id never referenced
counted_of(counted, id) == IF Has(counted, id) THEN Get(counted, id) ELSE 0

project_ids(ps) == {ps[i].id : i \in 1..Len(ps)}

project_of(ps, id) == ps[CHOOSE i \in 1..Len(ps) : ps[i].id = id]

\* int(project_info.get(field, 0) or 0)
declared_ok(p, field) == ~Truthy(GetOrNone(p.data, field)) \/ int_ok(Get(p.data, field))
declared(p, field) == IF Truthy(GetOrNone(p.data, field)) THEN int(Get(p.data, field)) ELSE 0

\* A variant that reports only a declared number above the counted one.
votes_differ_above(file_votes, counted) == file_votes > counted

\* The test of line 195: not int(votes) == int(counted_votes or 0)
votes_differ(file_votes, counted) == ~(file_votes = counted)

\* The first loop of check_if_correct_votes_number, lines 188-199.
RECURSIVE votes_number_loop(_, _, _)
votes_number_loop(ps, counted, acc) ==
    IF ps = << >> \/ acc.exc THEN acc
    ELSE LET p == Head(ps) IN
         IF ~declared_ok(p, "votes") THEN [acc EXCEPT !.exc = TRUE]
         ELSE LET d1 == IF declared(p, "votes") = 0
                        THEN << Diag("project with no votes",
                                     Details("It's possible, that this project was not approved for voting!",
                                             << >>, << p.id >>)) >>
                        ELSE << >>
                  d2 == IF votes_differ(declared(p, "votes"), counted_of(counted, p.id))
                        THEN << Diag("different values in votes",
                                     Details("file votes (in PROJECTS section) vs counted",
                                             << counted_of(counted, p.id) >>,
                                             << p.id, GetOrNone(p.data, "votes") >>)) >>
                        ELSE << >>
              IN  votes_number_loop(Tail(ps), counted, [diags |-> acc.diags \o d1 \o d2, exc |-> FALSE])

\* The second loop of check_if_correct_votes_number, lines 201-208.
RECURSIVE votes_unlisted_loop(_, _)
votes_unlisted_loop(counted, ps) ==
    IF counted = << >> THEN << >>
    ELSE LET c == Head(counted)
             hit == \/ c.k \notin project_ids(ps)
                    \/ ~Has(project_of(ps, c.k).data, "votes")
         IN  (IF hit
              THEN << Diag("different values in votes",
                           Details("file votes (in PROJECTS section): 0 vs counted",
                                   << c.v >>, << c.k >>)) >>
              ELSE << >>) \o votes_unlisted_loop(Tail(counted), ps)

check_if_correct_votes_number(ps, vs) ==
    LET counted == count_votes_per_project(vs)
        loop == votes_number_loop(ps, counted, [diags |-> << >>, exc |-> FALSE])
    IN  IF loop.exc THEN [counted_votes |-> counted, diags |-> loop.diags, exc |-> TRUE]
        ELSE [counted_votes |-> counted,
              diags |-> loop.diags \o votes_unlisted_loop(counted, ps), exc |-> FALSE]

\* utils.count_points_per_project: for each voter, split `vote` and `points`
\* on ",", zip them and sum the points of each project.
points_ok(vs) ==
    \A i \in 1..Len(vs) :
        /\ Has(vs[i].data, "points")
        /\ LET pts == split(Get(vs[i].data, "points"))
               n == Len(split(Get(vs[i].data, "vote")))
           IN  \A j \in 1..Len(pts) : j <= n => int_ok(pts[j])

RECURSIVE sum_ints(_)
sum_ints(s) == IF s = << >> THEN 0 ELSE Head(s) + sum_ints(Tail(s))

points_for(v, id) ==
    LET ballot == split(Get(v.data, "vote"))
        pts == split(Get(v.data, "points"))
        n == IF Len(ballot) < Len(pts) THEN Len(ballot) ELSE Len(pts)
    IN  sum_ints([j \in 1..n |-> IF ballot[j] = id THEN int(pts[j]) ELSE 0])

count_points_per_project(vs) ==
    LET ks == first_occurrences(all_references(vs))
    IN  [i \in 1..Len(ks) |->
            [k |-> ks[i], v |-> sum_ints([j \in 1..Len(vs) |-> points_for(vs[j], ks[i])])]]

\* The first loop of check_if_correct_scores_number, lines 218-225.  The
\* second loop, lines 227-230, builds a message and does not report it.
RECURSIVE scores_number_loop(_, _, _)
scores_number_loop(ps, counted, acc) ==
    IF ps = << >> \/ acc.exc THEN acc
    ELSE LET p == Head(ps) IN
         IF ~declared_ok(p, "score") THEN [acc EXCEPT !.exc = TRUE]
         ELSE LET d == IF ~(declared(p, "score") = counted_of(counted, p.id))
                       THEN << Diag("different values in scores",
                                    Details("file scores (in PROJECTS section) vs counted",
                                            << counted_of(counted, p.id) >>,
                                            << p.id, GetOrNone(p.data, "score") >>)) >>
                       ELSE << >>
              IN  scores_number_loop(Tail(ps), counted, [diags |-> acc.diags \o d, exc |-> FALSE])

check_if_correct_scores_number(ps, vs, cs) ==
    IF ~points_ok(vs) THEN [counted_scores |-> cs, diags |-> << >>, exc |-> TRUE]
    ELSE LET counted == count_points_per_project(vs)
             loop == scores_number_loop(ps, counted, [diags |-> << >>, exc |-> FALSE])
         IN  [counted_scores |-> counted, diags |-> loop.diags, exc |-> loop.exc]

check_votes_and_scores(ps, vs, vip, sip, cv, cs) ==
    LET d0 == IF ~(vip \/ sip)
              THEN << Diag("No votes or score counted in PROJECTS section",
                           Details("There should be at least one field", << >>, << >>)) >>
              ELSE << >>
        nv == IF vip THEN check_if_correct_votes_number(ps, vs)
              ELSE [counted_votes |-> cv, diags |-> << >>, exc |-> FALSE]
        ns == IF sip /\ ~nv.exc THEN check_if_correct_scores_number(ps, vs, cs)
              ELSE [counted_scores |-> cs, diags |-> << >>, exc |-> FALSE]
    IN  [counted_votes |-> nv.counted_votes,
         counted_scores |-> ns.counted_scores,
         diags |-> d0 \o nv.diags \o ns.diags,
         exc |-> nv.exc \/ ns.exc]

-----------------------------------------------------------------------------
(* verify_selected                                                         *)

\* The result value utils.sort_projects_by_results orders by: `score` when
\* the project has one, else `votes`.
result_field(p) == IF Has(p.data, "score") THEN "score" ELSE "votes"

result_ok(p) == Has(p.data, result_field(p)) /\ int_ok(Get(p.data, result_field(p)))

result_value(p) == int(Get(p.data, result_field(p)))

\* p comes before q: result descending, then id ascending.
ranks_before(p, q) ==
    \/ result_value(p) > result_value(q)
    \/ result_value(p) = result_value(q) /\ int(p.id) < int(q.id)

\* utils.sort_projects_by_results
RECURSIVE sort_projects_by_results(_)
sort_projects_by_results(ps) ==
    IF ps = << >> THEN << >>
    ELSE LET i == CHOOSE i \in 1..Len(ps) : \A j \in 1..Len(ps) : j # i => ranks_before(ps[i], ps[j])
         IN  << ps[i] >> \o sort_projects_by_results([j \in 1..(Len(ps) - 1) |-> IF j < i THEN ps[j] ELSE ps[j + 1]])

\* The ways Python may list the elements of a set of strings when it formats
\* the set: the order follows the strings' hashes, which change from one
\* interpreter process to the next.
Orderings(S) == {o \in [1..Cardinality(S) -> S] : Range(o) = S}

\* What a replay loop needs of a project: float(cost), project_dict[results]
\* and int(project_dict["selected"]), each of which may raise.
replay_row_ok(p, results_key) ==
    /\ float_ok(Get(p.data, "cost"))
    /\ Has(p.data, results_key)
    /\ Has(p.data, "selected")
    /\ int_ok(Get(p.data, "selected"))

\* A variant that admits a project only when money is left over.
greedy_fits_strict(budget, project_cost) == budget > project_cost

\* The test of line 286: budget >= project_cost
greedy_fits(budget, project_cost) == budget >= project_cost

\* The loop of verify_greedy_selected, lines 280-288.
RECURSIVE greedy_loop(_, _, _, _)
greedy_loop(ps, budget, results_key, acc) ==
    IF ps = << >> \/ acc.exc THEN acc
    ELSE LET p == Head(ps) IN
         IF ~replay_row_ok(p, results_key) THEN [acc EXCEPT !.exc = TRUE]
         ELSE LET project_cost == float(Get(p.data, "cost"))
                  fits == greedy_fits(budget, project_cost)
              IN  greedy_loop(Tail(ps), IF fits THEN budget - project_cost ELSE budget, results_key,
                      [selected_projects |-> acc.selected_projects
                            \cup (IF int(Get(p.data, "selected")) = 1 THEN {p.id} ELSE {}),
                       greedy_winners |-> acc.greedy_winners \cup (IF fits THEN {p.id} ELSE {}),
                       exc |-> FALSE])

\* The condition of line 299.
greedy_reports(should_be_selected, shouldnt_be_selected) ==
    should_be_selected # {} \/ should_be_selected # {}

\* verify_greedy_selected: the set of its possible outcomes.
verify_greedy_selected(budget, ps, results_key) ==
    LET loop == greedy_loop(ps, budget, results_key,
                    [selected_projects |-> {}, greedy_winners |-> {}, exc |-> FALSE])
        should_be_selected == loop.greedy_winners \ loop.selected_projects
        shouldnt_be_selected == loop.selected_projects \ loop.greedy_winners
    IN  IF loop.exc THEN {[diags |-> << >>, exc |-> TRUE]}
        ELSE IF greedy_reports(should_be_selected, shouldnt_be_selected)
        THEN {[diags |-> << Diag("greedy rule not followed",
                                 Details("Projects not selected but should be / selected but shouldn't",
                                         << >>, o1 \o << << "/" >> >> \o o2)) >>,
               exc |-> FALSE] :
                  o1 \in Orderings(should_be_selected), o2 \in Orderings(shouldnt_be_selected)}
        ELSE {[diags |-> << >>, exc |-> FALSE]}

\* A variant that compares the cost with 80% of the budget left.
poznan_80_fits_of_budget(budget, project_cost) == project_cost * 10 <= budget * 8

\* The test of line 258, budget >= project_cost * 0.8, compared in tenths of
\* a hundredth.
poznan_80_fits(budget, project_cost) == budget * 10 >= project_cost * 8

\* The loop of verify_poznan_selected, lines 246-262.
RECURSIVE poznan_loop(_, _, _, _)
poznan_loop(ps, budget, results_key, acc) ==
    IF ps = << >> \/ acc.exc THEN acc
    ELSE LET p == Head(ps) IN
         IF ~replay_row_ok(p, results_key) THEN [acc EXCEPT !.exc = TRUE]
         ELSE LET project_cost == float(Get(p.data, "cost"))
                  fits == acc.get_rule_projects /\ budget >= project_cost
                  by80 == acc.get_rule_projects /\ ~(budget >= project_cost)
                              /\ poznan_80_fits(budget, project_cost)
              IN  poznan_loop(Tail(ps), IF fits THEN budget - project_cost ELSE budget, results_key,
                      [file_selected |-> acc.file_selected
                            \cup (IF int(Get(p.data, "selected")) \in {1, 2} THEN {p.id} ELSE {}),
                       rule_selected |-> acc.rule_selected \cup (IF fits \/ by80 THEN {p.id} ELSE {}),
                       get_rule_projects |-> fits,
                       exc |-> FALSE])

\* verify_poznan_selected: the set of its possible outcomes.
verify_poznan_selected(budget, ps, results_key) ==
    LET loop == poznan_loop(ps, budget, results_key,
                    [file_selected |-> {}, rule_selected |-> {}, get_rule_projects |-> TRUE,
                     exc |-> FALSE])
        should_be_selected == loop.rule_selected \ loop.file_selected
        shouldnt_be_selected == loop.file_selected \ loop.rule_selected
    IN  IF loop.exc THEN {[diags |-> << >>, exc |-> TRUE]}
        ELSE {[diags |->
                  (IF should_be_selected # {}
                   THEN << Diag("poznan rule not followed",
                                Details("Projects not selected but should be", << >>, o1)) >>
                   ELSE << >>)
                  \o (IF shouldnt_be_selected # {}
                      THEN << Diag("poznan rule not followed",
                                   Details("Projects selected but should not", << >>, o2)) >>
                      ELSE << >>),
               exc |-> FALSE] :
                  o1 \in Orderings(should_be_selected), o2 \in Orderings(shouldnt_be_selected)}

\* The unit "Poznań" (written without the accent).
Poznan == << "P", "o", "z", "n", "a", "n" >>

greedy == << "g", "r", "e", "e", "d", "y" >>

\* verify_selected: the set of its possible outcomes.
verify_selected(m, ps, sip) ==
    IF ps = << >> THEN {[diags |-> << >>, exc |-> TRUE]}
    ELSE IF ~Truthy(GetOrNone(ps[1].data, "selected")) THEN {[diags |-> << >>, exc |-> FALSE]}
    ELSE IF \E i \in 1..Len(ps) : ~result_ok(ps[i]) THEN {[diags |-> << >>, exc |-> TRUE]}
    ELSE IF ~float_ok(replace_comma(Get(m, "budget"))) THEN {[diags |-> << >>, exc |-> TRUE]}
    ELSE LET sorted == sort_projects_by_results(ps)
             results_key == IF sip THEN "score" ELSE "votes"
             budget == float(replace_comma(Get(m, "budget")))
         IN  IF Get(m, "unit") = Poznan THEN verify_poznan_selected(budget, sorted, results_key)
             ELSE IF Get(m, "rule") = greedy THEN verify_greedy_selected(budget, sorted, results_key)
             ELSE {[diags |-> << >>, exc |-> FALSE]}

-----------------------------------------------------------------------------
(* validate_date_range                                                     *)

\* re.match(r"^\d{4}$", s)
is_year(s) == Len(s) = 4 /\ \A i \in 1..4 : s[i] \in Digit

\* re.match(r"^\d{2}\.\d{2}\.\d{4}$", s)
is_full_date(s) ==
    /\ Len(s) = 10
    /\ s[3] = "." /\ s[6] = "."
    /\ \A i \in {1, 2, 4, 5, 7, 8, 9, 10} : s[i] \in Digit

\* parse_date, lines 436-445: "YYYY-01-01", "YYYY-MM-DD", or None (falsy).
parse_date(date_str) ==
    IF is_year(date_str) THEN date_str \o << "-", "0", "1", "-", "0", "1" >>
    ELSE IF is_full_date(date_str)
    THEN LET day == int(SubSeq(date_str, 1, 2))
             month == int(SubSeq(date_str, 4, 5))
             year == int(SubSeq(date_str, 7, 10))
         IN  zero_pad(str(year), 4) \o << "-" >> \o zero_pad(str(month), 2)
                \o << "-" >> \o zero_pad(str(day), 2)
    ELSE << >>

\* ord(c) for the characters of the model
ord(c) ==
    CASE c = "," -> 44 [] c = "-" -> 45 [] c = "." -> 46 [] c = "/" -> 47
      [] c \in Digit -> 48 + DigitVal(c)
      [] OTHER -> 120

\* a > b on Python strings: by code point, a proper prefix being smaller.
RECURSIVE str_greater(_, _)
str_greater(a, b) ==
    IF a = << >> THEN FALSE
    ELSE IF b = << >> THEN TRUE
    ELSE IF ord(Head(a)) # ord(Head(b)) THEN ord(Head(a)) > ord(Head(b))
    ELSE str_greater(Tail(a), Tail(b))

\* A variant that also reports equal dates.
date_range_mismatch_or_equal(parsed_begin, parsed_end) == ~str_greater(parsed_end, parsed_begin)

\* The comparison of line 451.
date_range_mismatch(parsed_begin, parsed_end) == str_greater(parsed_begin, parsed_end)

validate_date_range(m) ==
    IF ~Has(m, "date_begin") \/ ~Has(m, "date_end") THEN [diags |-> << >>, exc |-> TRUE]
    ELSE LET parsed_begin == parse_date(Get(m, "date_begin"))
             parsed_end == parse_date(Get(m, "date_end"))
         IN  [diags |-> IF Truthy(parsed_begin) /\ Truthy(parsed_end)
                           /\ date_range_mismatch(parsed_begin, parsed_end)
                        THEN << Diag("date range missmatch",
                                     Details("date end earlier than start", << >>,
                                             << parsed_end, parsed_begin >>)) >>
                        ELSE << >>,
              exc |-> FALSE]

-----------------------------------------------------------------------------
(* The schema: pabulib_helpers.fields                                      *)

Field(name, datatype, obligatory, checker) ==
    [k |-> name, datatype |-> datatype, obligatory |-> obligatory, nullable |-> FALSE,
     checker |-> checker]

META_FIELDS_ORDER ==
    << Field("description", "str", TRUE, ""), Field("country", "str", TRUE, ""),
       Field("unit", "str", TRUE, ""), Field("instance", "str", TRUE, ""),
       Field("num_projects", "int", TRUE, ""), Field("num_votes", "int", TRUE, ""),
       Field("budget", "float", TRUE, ""), Field("vote_type", "str", TRUE, "vote_type"),
       Field("rule", "str", TRUE, ""), Field("date_begin", "str", TRUE, "date"),
       Field("date_end", "str", TRUE, "date"), Field("fully_funded", "int", FALSE, "fully_funded"),
       Field("max_length", "int", FALSE, ""), Field("min_length", "int", FALSE, ""),
       Field("max_sum_cost", "float", FALSE, ""), Field("max_sum_points", "int", FALSE, ""),
       Field("min_project_score_threshold", "int", FALSE, ""),
       Field("comment", "str", FALSE, "comment"), Field("language", "str", FALSE, ""),
       Field("currency", "str", FALSE, ""), Field("edition", "str", FALSE, ""),
       Field("subunit", "str", FALSE, ""),
       Field("max_length_unit", "int", FALSE, ""), Field("min_length_unit", "int", FALSE, ""),
       Field("max_length_district", "int", FALSE, ""), Field("min_length_district", "int", FALSE, "") >>

PROJECTS_FIELDS_ORDER ==
    << Field("project_id", "str", TRUE, ""), Field("cost", "int", TRUE, ""),
       Field("name", "str", TRUE, ""), Field("category", "str", FALSE, ""),
       Field("target", "str", FALSE, ""), Field("selected", "int", FALSE, ""),
       Field("votes", "int", FALSE, ""), Field("score", "int", FALSE, ""),
       Field("longitude", "float", FALSE, ""), Field("latitude", "float", FALSE, "") >>

VOTES_FIELDS_ORDER ==
    << Field("voter_id", "str", TRUE, ""), Field("vote", "str", TRUE, ""),
       Field("age", "str", FALSE, "age"), Field("sex", "str", FALSE, "sex"),
       Field("voting_method", "str", FALSE, ""), Field("points", "str", FALSE, "") >>

approval == << "a", "p", "p", "r", "o", "v", "a", "l" >>
ordinal == << "o", "r", "d", "i", "n", "a", "l" >>
cumulative == << "c", "u", "m", "u", "l", "a", "t", "i", "v", "e" >>
choose_1 == << "c", "h", "o", "o", "s", "e", "-", "1" >>

\* age: a non-negative integer, or a bucket A-B with A <= B
age_ok(v) ==
    \/ IsDigits(v)
    \/ \E i \in 1..Len(v) :
          /\ v[i] = "-"
          /\ IsDigits(SubSeq(v, 1, i - 1)) /\ IsDigits(SubSeq(v, i + 1, Len(v)))
          /\ NatOf(SubSeq(v, 1, i - 1)) <= NatOf(SubSeq(v, i + 1, Len(v)))

\* The per-field predicates: TRUE, or a failure (reported with a message).
checker_passes(checker, value) ==
    CASE checker = "vote_type" -> value \in {ordinal, approval, cumulative, choose_1}
      [] checker = "fully_funded" -> int(value) = 1
      [] checker = "date" -> is_year(value) \/ is_full_date(value)
      [] checker = "comment" -> Len(value) >= 4 /\ SubSeq(value, 1, 4) = << "#", "1", ":", " " >>
      [] checker = "age" -> age_ok(value)
      [] checker = "sex" -> value \in {<< "M" >>, << "F" >>, << "O" >>}
      [] OTHER -> TRUE

-----------------------------------------------------------------------------
(* check_fields                                                            *)

schema_names(fields_order) == [i \in 1..Len(fields_order) |-> fields_order[i].k]

\* [x for x in s if keep(x)] for a set `keep`
RECURSIVE filter_in(_, _)
filter_in(s, keep) ==
    IF s = << >> THEN << >>
    ELSE (IF Head(s) \in keep THEN << Head(s) >> ELSE << >>) \o filter_in(Tail(s), keep)

diag_type(kind, field_name) ==
    CASE kind = "missing" ->
            (CASE field_name = "meta" -> "missing meta obligatory field"
               [] field_name = "projects" -> "missing projects obligatory field"
               [] field_name = "votes" -> "missing votes obligatory field")
      [] kind = "not known" ->
            (CASE field_name = "meta" -> "not known meta fields"
               [] field_name = "projects" -> "not known projects fields"
               [] field_name = "votes" -> "not known votes fields")
      [] kind = "order" ->
            (CASE field_name = "meta" -> "wrong meta fields order"
               [] field_name = "projects" -> "wrong projects fields order"
               [] field_name = "votes" -> "wrong votes fields order")
      [] kind = "invalid" ->
            (CASE field_name = "meta" -> "invalid meta field value"
               [] field_name = "projects" -> "invalid projects field value"
               [] field_name = "votes" -> "invalid votes field value")

\* The loop of lines 354-370: TRUE when it reports a wrong order.
RECURSIVE order_loop(_, _, _)
order_loop(data_order, fields_order_keys, expected_order_index) ==
    IF data_order = << >> THEN FALSE
    ELSE LET later == {i \in expected_order_index..Len(fields_order_keys) :
                            fields_order_keys[i] = Head(data_order)}
         IN  IF later = {} THEN TRUE
             ELSE order_loop(Tail(data_order), fields_order_keys,
                             CHOOSE i \in later : \A j \in later : i <= j)

\* The loop of lines 373-412.  In the handler of a failed cast the name
\* `type` is the local string assigned on line 394, so calling type(value)
\* on line 397 raises TypeError.
RECURSIVE value_loop(_, _, _, _)
value_loop(data, fields_order, field_name, acc) ==
    IF data = << >> \/ acc.exc THEN acc
    ELSE LET field == Head(data).k
             value == Head(data).v
             rest == Tail(data)
         IN  IF ~Has(fields_order, field) THEN value_loop(rest, fields_order, field_name, acc)
             ELSE LET field_rules == fields_order[CHOOSE i \in 1..Len(fields_order) : fields_order[i].k = field]
                  IN  IF ~Truthy(value)
                      THEN value_loop(rest, fields_order, field_name,
                               [acc EXCEPT !.diags = @ \o
                                   (IF ~field_rules.nullable
                                    THEN << Diag(diag_type("invalid", field_name),
                                                 FieldDetails("cannot be None", << field >>, << >>)) >>
                                    ELSE << >>)])
                      ELSE IF \/ field_rules.datatype = "int" /\ ~int_ok(value)
                              \/ field_rules.datatype = "float" /\ ~float_ok(value)
                      THEN [acc EXCEPT !.exc = TRUE]
                      ELSE value_loop(rest, fields_order, field_name,
                               [acc EXCEPT !.diags = @ \o
                                   (IF ~checker_passes(field_rules.checker, value)
                                    THEN << Diag(diag_type("invalid", field_name),
                                                 FieldDetails("failed validation", << field >>, << value >>)) >>
                                    ELSE << >>)])

\* check_fields.validate_fields, lines 326-412
validate_fields(data, fields_order, field_name) ==
    LET fields_order_keys == schema_names(fields_order)
        data_keys == [i \in 1..Len(data) |-> data[i].k]
        missing_fields == filter_in(
            [i \in 1..Len(fields_order) |-> IF fields_order[i].obligatory THEN fields_order[i].k ELSE ""],
            {fields_order[i].k : i \in {j \in 1..Len(fields_order) : fields_order[j].obligatory}}
                \ Range(data_keys))
        not_known_fields == filter_in(data_keys, Range(data_keys) \ Range(fields_order_keys))
        data_order == filter_in(data_keys, Range(fields_order_keys))
        d1 == IF missing_fields # << >>
              THEN << Diag(diag_type("missing", field_name),
                           FieldDetails("missing fields", missing_fields, << >>)) >>
              ELSE << >>
        d2 == IF not_known_fields # << >>
              THEN << Diag(diag_type("not known", field_name),
                           FieldDetails("contains not known fields", not_known_fields, << >>)) >>
              ELSE << >>
        d3 == IF order_loop(data_order, fields_order_keys, 1)
              THEN << Diag(diag_type("order", field_name),
                           FieldDetails("wrong fields order", data_order, << >>)) >>
              ELSE << >>
    IN  value_loop(data, fields_order, field_name, [diags |-> d1 \o d2 \o d3, exc |-> FALSE])

\* check_fields, lines 414-432
check_fields(m, ps, vs) ==
    LET vm == validate_fields(m, META_FIELDS_ORDER, "meta")
        vd == IF vm.exc THEN [diags |-> << >>, exc |-> TRUE] ELSE validate_date_range(m)
        first_project == IF ps = << >> THEN << >> ELSE ps[1].data
        vp == IF vd.exc THEN [diags |-> << >>, exc |-> TRUE]
              ELSE validate_fields(first_project, PROJECTS_FIELDS_ORDER, "projects")
        first_vote == << [k |-> "voter_id", v |-> << "p" >>] >>
                          \o (IF vs = << >> THEN << >> ELSE vs[1].data)
        vv == IF vp.exc THEN [diags |-> << >>, exc |-> TRUE]
              ELSE validate_fields(first_vote, VOTES_FIELDS_ORDER, "votes")
    IN  [diags |-> vm.diags \o vd.diags \o vp.diags \o vv.diags, exc |-> vv.exc]

-----------------------------------------------------------------------------
(* The inputs of process_files.                                            *)

KV(key, val) == [k |-> key, v |-> val]

\* META of a well-formed file with the given budget, num_votes and lines.
MetaOf(budget, num_votes) ==
    << KV("description", << "d" >>), KV("country", << "c" >>), KV("unit", << "u" >>),
       KV("instance", << "i" >>), KV("num_projects", << "2" >>), KV("num_votes", num_votes),
       KV("budget", budget), KV("vote_type", approval), KV("rule", greedy),
       KV("date_begin", << "2", "0", "2", "3" >>), KV("date_end", << "2", "0", "2", "4" >>) >>

Project(id, cost, selected, nvotes) ==
    [id |-> id,
     data |-> << KV("project_id", id), KV("cost", cost), KV("name", << "n" >>),
                 KV("selected", selected), KV("votes", nvotes) >>]

Vote(voter, ballot) == [voter |-> voter, data |-> << KV("vote", ballot) >>]

ThreeVotes ==
    << Vote(<< "a" >>, << "1", ",", "2" >>), Vote(<< "b" >>, << "1" >>), Vote(<< "c" >>, << "2" >>) >>

TwoProjects(selected1, selected2) ==
    << Project(<< "1" >>, << "5", "0", "0" >>, selected1, << "2" >>),
       Project(<< "2" >>, << "3", "0", "0" >>, selected2, << "2" >>) >>

Content(ls, m, ps, vs) == [lines |-> ls, meta |-> m, projects |-> ps, votes |-> vs]

\* A file every check accepts.
ContentOk ==
    Content(<< "x", "x", "x", "" >>, MetaOf(<< "5", "0", "0" >>, << "3" >>),
            TwoProjects(<< "1" >>, << "0" >>), ThreeVotes)

\* The same file with an empty line in it.
ContentBlank == [ContentOk EXCEPT !.lines = << "x", "", "x", "x", "" >>]

\* An empty line, and a budget that float() rejects.
ContentBadBudget ==
    Content(<< "x", " ", "x", "" >>, MetaOf(<< "5", "0", "0", "x" >>, << "3" >>),
            TwoProjects(<< "1" >>, << "0" >>), ThreeVotes)

\* num_votes present and empty.
ContentNoNumVotes ==
    Content(<< "x", "x", "x", "" >>, MetaOf(<< "5", "0", "0" >>, << >>),
            TwoProjects(<< "1" >>, << "0" >>), ThreeVotes)

\* A budget that pays for both projects, none of them selected.
ContentNoneSelected ==
    Content(<< "x", "x", "x", "" >>, MetaOf(<< "9", "0", "0" >>, << "3" >>),
            TwoProjects(<< "0" >>, << "0" >>), ThreeVotes)

\* A ballot names project 9, which PROJECTS does not list; a second ballot
\* names it again.
ContentUnknownProject ==
    Content(<< "x", "x", "x", "" >>, MetaOf(<< "5", "0", "0" >>, << "3" >>),
            TwoProjects(<< "1" >>, << "0" >>),
            << Vote(<< "a" >>, << "1", ",", "2" >>), Vote(<< "b" >>, << "1", ",", "9" >>),
               Vote(<< "c" >>, << "2", ",", "9" >>) >>)

\* One ballot names project 1 twice; the declared votes equal the counted ones.
ContentDuplicateVote ==
    Content(<< "x", "x", "x", "" >>, MetaOf(<< "5", "0", "0" >>, << "3" >>),
            TwoProjects(<< "1" >>, << "0" >>),
            << Vote(<< "a" >>, << "1", ",", "1" >>), Vote(<< "b" >>, << "2" >>),
               Vote(<< "c" >>, << "2" >>) >>)

\* The same, with META listing unit before country.
ContentWrongOrder ==
    [ContentNoneSelected EXCEPT
        !.meta = << @[1], @[3], @[2] >> \o SubSeq(@, 4, Len(@))]

RawContent(c) == [isfile |-> FALSE, name |-> "", content |-> c]

FilePath(name, c) == [isfile |-> TRUE, name |-> name, content |-> c]

Entries ==
    { RawContent(ContentOk), RawContent(ContentNoneSelected), RawContent(ContentBadBudget),
      RawContent(ContentNoNumVotes), RawContent(ContentUnknownProject),
      RawContent(ContentDuplicateVote), RawContent(ContentWrongOrder),
      FilePath("a", ContentOk), FilePath("a", ContentBlank),
      FilePath("metadata", ContentOk), FilePath("summary", ContentBlank) }

FileLists == UNION {[1..n -> Entries] : n \in 1..MaxFiles}

\* helpers.load_pb_file.parse_pb_lines: the typed model of the text, and
\* whether PROJECTS declares a `votes` / a `score` column.
parse_pb_lines(entry) ==
    [meta |-> entry.content.meta, projects |-> entry.content.projects,
     votes |-> entry.content.votes,
     votes_in_projects |-> \E i \in 1..Len(entry.content.projects) :
                               Has(entry.content.projects[i].data, "votes"),
     scores_in_projects |-> \E i \in 1..Len(entry.content.projects) :
                               Has(entry.content.projects[i].data, "score")]

-----------------------------------------------------------------------------
(* process_files and run_checks                                            *)

NoReport == [results |-> EmptyDict, pc |-> "none"]

\* A Checker after __post_init__, about to run process_files(files).
FreshChecker ==
    /\ results = post_init_results
    /\ error_counters = EmptyDict
    /\ counted_votes = << >>
    /\ counted_scores = << >>
    /\ file_results = EmptyDict
    /\ meta = << >> /\ projects = << >> /\ votes = << >>
    /\ votes_in_projects = FALSE /\ scores_in_projects = FALSE
    /\ lines = << >>
    /\ identifier = IndexId(0)
    /\ emitted = << >>
    /\ hist = << >>
    /\ index = 1
    /\ calls = 1

\* The same for the Checker of the second run.
NewChecker ==
    /\ results' = post_init_results
    /\ error_counters' = EmptyDict
    /\ counted_votes' = << >>
    /\ counted_scores' = << >>
    /\ file_results' = EmptyDict
    /\ meta' = << >> /\ projects' = << >> /\ votes' = << >>
    /\ votes_in_projects' = FALSE /\ scores_in_projects' = FALSE
    /\ lines' = << >>
    /\ identifier' = IndexId(0)
    /\ emitted' = << >>
    /\ hist' = << >>
    /\ index' = 1
    /\ calls' = 1

Init ==
    /\ files \in FileLists
    /\ pc = "loop"
    /\ FreshChecker
    /\ run = 1
    /\ prev_report = NoReport

HistEntry(id, diags, completed) == [identifier |-> id, emitted |-> diags, completed |-> completed]

\* The head of the loop, lines 473-489.
StartEntry ==
    /\ pc = "loop"
    /\ index <= Len(files)
    /\ LET entry == files[index]
           parsed == parse_pb_lines(entry)
       IN  /\ file_results' = EmptyDict
           /\ identifier' = IF entry.isfile THEN NameId(entry.name) ELSE IndexId(index)
           /\ lines' = entry.content.lines
           /\ meta' = parsed.meta
           /\ projects' = parsed.projects
           /\ votes' = parsed.votes
           /\ votes_in_projects' = parsed.votes_in_projects
           /\ scores_in_projects' = parsed.scores_in_projects
    /\ emitted' = << >>
    /\ pc' = "check_empty_lines"
    /\ UNCHANGED << files, index, results, error_counters, counted_votes, counted_scores,
                    hist, run, calls, prev_report >>

\* The loop is exhausted: return self.results, line 507.
Return ==
    /\ pc = "loop"
    /\ index > Len(files)
    /\ pc' = "done"
    /\ UNCHANGED << files, index, identifier, lines, results, error_counters, file_results,
                    meta, projects, votes, votes_in_projects, scores_in_projects,
                    counted_votes, counted_scores, emitted, hist, run, calls, prev_report >>

\* What a check leaves behind: its add_error calls, and either the next
\* position or the exception leaving process_files.
Report(out, next) ==
    LET st == add_errors(CheckerState, out.diags)
        exc == st.raised \/ out.exc
    IN  /\ file_results' = st.file_results
        /\ error_counters' = st.error_counters
        /\ results' = st.results
        /\ emitted' = st.emitted
        /\ pc' = IF exc THEN "raised" ELSE next
        /\ hist' = IF exc THEN Append(hist, HistEntry(identifier, st.emitted, FALSE)) ELSE hist

CheckEmptyLines ==
    /\ pc = "check_empty_lines"
    /\ LET out == check_empty_lines(lines)
       IN  /\ lines' = out.lines
           /\ Report([diags |-> out.diags, exc |-> FALSE], "check_if_commas_in_floats")
    /\ UNCHANGED << files, index, identifier, meta, projects, votes, votes_in_projects,
                    scores_in_projects, counted_votes, counted_scores, run, calls, prev_report >>

CheckIfCommasInFloats ==
    /\ pc = "check_if_commas_in_floats"
    /\ LET out == check_if_commas_in_floats(meta, projects)
           stops == out.diags # << >> /\ results[SummaryKey].kind # "summary"
       IN  /\ Report([diags |-> out.diags, exc |-> FALSE], "check_budgets")
           /\ meta' = IF stops THEN meta ELSE out.meta
           /\ projects' = IF stops THEN projects ELSE out.projects
    /\ UNCHANGED << files, index, identifier, lines, votes, votes_in_projects,
                    scores_in_projects, counted_votes, counted_scores, run, calls, prev_report >>

CheckBudgets ==
    /\ pc = "check_budgets"
    /\ Report(check_budgets(meta, projects), "check_number_of_votes")
    /\ UNCHANGED << files, index, identifier, lines, meta, projects, votes, votes_in_projects,
                    scores_in_projects, counted_votes, counted_scores, run, calls, prev_report >>

CheckNumberOfVotes ==
    /\ pc = "check_number_of_votes"
    /\ Report(check_number_of_votes(meta, votes), "check_number_of_projects")
    /\ UNCHANGED << files, index, identifier, lines, meta, projects, votes, votes_in_projects,
                    scores_in_projects, counted_votes, counted_scores, run, calls, prev_report >>

CheckNumberOfProjects ==
    /\ pc = "check_number_of_projects"
    /\ Report(check_number_of_projects(meta, projects), "check_vote_length")
    /\ UNCHANGED << files, index, identifier, lines, meta, projects, votes, votes_in_projects,
                    scores_in_projects, counted_votes, counted_scores, run, calls, prev_report >>

CheckVoteLength ==
    /\ pc = "check_vote_length"
    /\ Report(check_vote_length(meta, votes), "check_votes_and_scores")
    /\ UNCHANGED << files, index, identifier, lines, meta, projects, votes, votes_in_projects,
                    scores_in_projects, counted_votes, counted_scores, run, calls, prev_report >>

CheckVotesAndScores ==
    /\ pc = "check_votes_and_scores"
    /\ LET out == check_votes_and_scores(projects, votes, votes_in_projects, scores_in_projects,
                                         counted_votes, counted_scores)
       IN  /\ Report([diags |-> out.diags, exc |-> out.exc], "verify_selected")
           /\ counted_votes' = out.counted_votes
           /\ counted_scores' = out.counted_scores
    /\ UNCHANGED << files, index, identifier, lines, meta, projects, votes, votes_in_projects,
                    scores_in_projects, run, calls, prev_report >>

VerifySelected ==
    /\ pc = "verify_selected"
    /\ \E out \in verify_selected(meta, projects, scores_in_projects) :
          Report(out, "check_fields")
    /\ UNCHANGED << files, index, identifier, lines, meta, projects, votes, votes_in_projects,
                    scores_in_projects, counted_votes, counted_scores, run, calls, prev_report >>

CheckFields ==
    /\ pc = "check_fields"
    /\ Report(check_fields(meta, projects, votes), "record")
    /\ UNCHANGED << files, index, identifier, lines, meta, projects, votes, votes_in_projects,
                    scores_in_projects, counted_votes, counted_scores, run, calls, prev_report >>

\* A variant that takes a file with diagnostics for a correct one.
file_looks_correct_inverted(fr) == fr # EmptyDict

\* The test of line 497: not self.file_results
file_looks_correct(fr) == fr = EmptyDict

\* The counter updates of lines 499, 503 and 505.
count_entry(metadata, looks_correct) ==
    [metadata EXCEPT !.valid = @ + (IF looks_correct THEN 1 ELSE 0),
                     !.invalid = @ + (IF looks_correct THEN 0 ELSE 1),
                     !.processed = @ + 1]

\* The end of the loop body, lines 497-505.  The write of the per-file
\* record comes first; the counter update after it raises when the entry's
\* identifier is "metadata".
RecordFile ==
    /\ pc = "record"
    /\ LET looks_correct == file_looks_correct(file_results)
           written == Put(results, identifier,
                          IF looks_correct THEN LooksCorrect ELSE FileRecord(file_results))
           metadata == written[MetadataKey]
       IN  IF metadata.kind # "metadata"
           THEN /\ results' = written
                /\ pc' = "raised"
                /\ index' = index
                /\ hist' = Append(hist, HistEntry(identifier, emitted, FALSE))
           ELSE /\ results' = [written EXCEPT ![MetadataKey] = count_entry(@, looks_correct)]
                /\ pc' = "loop"
                /\ index' = index + 1
                /\ hist' = Append(hist, HistEntry(identifier, emitted, TRUE))
    /\ UNCHANGED << files, identifier, lines, error_counters, file_results, meta, projects,
                    votes, votes_in_projects, scores_in_projects, counted_votes,
                    counted_scores, emitted, run, calls, prev_report >>

\* The caller calls process_files(files) once more on the same Checker.
CallAgain ==
    /\ pc \in {"done", "raised"}
    /\ run = 1
    /\ calls < MaxCalls
    /\ calls' = calls + 1
    /\ index' = 1
    /\ pc' = "loop"
    /\ UNCHANGED << files, identifier, lines, results, error_counters, file_results, meta,
                    projects, votes, votes_in_projects, scores_in_projects, counted_votes,
                    counted_scores, emitted, hist, run, prev_report >>

\* The caller calls process_files([]) on the same Checker: the loop of line
\* 473 has no iteration and line 507 returns the report as it is.
CallWithNoFiles ==
    /\ pc \in {"done", "raised"}
    /\ run = 1
    /\ calls < MaxCalls
    /\ calls' = calls + 1
    /\ pc' = "done"
    /\ UNCHANGED << files, index, identifier, lines, results, error_counters, file_results,
                    meta, projects, votes, votes_in_projects, scores_in_projects,
                    counted_votes, counted_scores, emitted, hist, run, prev_report >>

\* A second run: a new Checker processes the same list.
SecondRun ==
    /\ pc \in {"done", "raised"}
    /\ run = 1
    /\ calls = 1
    /\ prev_report' = [results |-> results, pc |-> pc]
    /\ run' = 2
    /\ pc' = "loop"
    /\ NewChecker
    /\ UNCHANGED files

Next ==
    \/ StartEntry
    \/ Return
    \/ CheckEmptyLines
    \/ CheckIfCommasInFloats
    \/ CheckBudgets
    \/ CheckNumberOfVotes
    \/ CheckNumberOfProjects
    \/ CheckVoteLength
    \/ CheckVotesAndScores
    \/ VerifySelected
    \/ CheckFields
    \/ RecordFile
    \/ CallAgain
    \/ SecondRun

Spec == Init /\ [][Next]_vars

-----------------------------------------------------------------------------
(* Properties of the report built by process_files.                        *)

\* The number of diagnostics of type t in a sequence of diagnostics.
CountType(diags, t) == Cardinality({i \in 1..Len(diags) : diags[i].type = t})

\* The details of the type-t diagnostics of a sequence, in emission order.
RECURSIVE DetailsOfType(_, _)
DetailsOfType(diags, t) ==
    IF diags = << >> THEN << >>
    ELSE (IF Head(diags).type = t THEN << Head(diags).details >> ELSE << >>)
           \o DetailsOfType(Tail(diags), t)

\* The entries whose pass reached the end of the loop body.
Completed == {i \in 1..Len(hist) : hist[i].completed}

\* No later entry was recorded under the identifier of entry i.
LastUnder(i) == \A j \in Completed : j > i => hist[j].identifier # hist[i].identifier

ValidEntries == {i \in Completed : hist[i].emitted = << >>}

InvalidEntries == {i \in Completed : hist[i].emitted # << >>}

RecordsPresent == {key \in DOMAIN results : results[key].kind = "file_results"}

EntriesOfType(key, t) ==
    IF t \in DOMAIN results[key].errors THEN Cardinality(DOMAIN results[key].errors[t]) ELSE 0

RECURSIVE SumOfEntries(_, _)
SumOfEntries(S, t) ==
    IF S = {} THEN 0
    ELSE LET key == CHOOSE x \in S : TRUE
         IN  EntriesOfType(key, t) + SumOfEntries(S \ {key}, t)

RecordedTypes == UNION {DOMAIN results[key].errors : key \in RecordsPresent}

\* C2 (as stated): between two entries and after process_files, the summary
\* is the per-type count map and, for every diagnostic type t, summary[t]
\* equals the sum over the per-file records present in the report of the
\* number of type-t entries in the record.
C2_SummaryIsSumOfRecords ==
    pc \in {"loop", "done", "raised"} =>
        /\ results[SummaryKey].kind = "summary"
        /\ \A t \in RecordedTypes \cup DOMAIN results[SummaryKey].counts :
              GetOr(results[SummaryKey].counts, t, 0) = SumOfEntries(RecordsPresent, t)

EntryId(i) == IF files[i].isfile THEN NameId(files[i].name) ELSE IndexId(i)

\* C3 (as stated): process_files never ends by an exception, and when it
\* returns from its first call on a list of n entries, metadata.processed is n
\* and every entry has a per-file record.
C3_BatchNeverAborts ==
    /\ pc # "raised"
    /\ (pc = "done" /\ calls = 1) =>
           /\ results[MetadataKey].processed = Len(files)
           /\ \A i \in 1..Len(files) : EntryId(i) \in DOMAIN results

\* C4 (as stated): in the first process_files call of a Checker, at every
\* point of a file's pass and for every diagnostic type t recorded for the
\* file, the keys of the type-t entries are 1..k, k the number of type-t
\* diagnostics emitted for the file so far, and key j holds the j-th of them.
C4_KeysFromOne ==
    calls = 1 => \A t \in DOMAIN file_results :
        /\ DOMAIN file_results[t] = 1..CountType(emitted, t)
        /\ \A j \in DOMAIN file_results[t] :
              j \in 1..CountType(emitted, t) => file_results[t][j] = DetailsOfType(emitted, t)[j]

\* The (voter, id) references to an id that is not a key of PROJECTS.
UnknownReferences ==
    {i \in 1..Len(all_references(votes)) : all_references(votes)[i] \notin project_ids(projects)}

\* C8 (as stated): when all checks of a file have run, the number of
\* `vote for non-existent project` errors in the file's record equals the
\* number of references to unknown projects.
C8_OneErrorPerUnknownReference ==
    pc = "record" =>
        Cardinality(DOMAIN GetOr(file_results, "vote for non-existent project", << >>))
            = Cardinality(UnknownReferences)

\* C10 (as stated): when two runs, each on a fresh Checker, have returned
\* from process_files on the same list, their reports are equal.
C10_SameReport ==
    (run = 2 /\ pc = "done" /\ prev_report.pc = "done") => results = prev_report.results

-----------------------------------------------------------------------------
(* A method called on its own, as the unit tests do: a Checker after       *)
(* __post_init__ whose meta, projects and votes the caller has set.        *)

Called(position, m, ps, vs) ==
    /\ files = << >>
    /\ pc = position
    /\ results = post_init_results
    /\ error_counters = EmptyDict
    /\ counted_votes = << >>
    /\ counted_scores = << >>
    /\ file_results = EmptyDict
    /\ meta = m
    /\ projects = ps
    /\ votes = vs
    /\ votes_in_projects = \E i \in 1..Len(ps) : Has(ps[i].data, "votes")
    /\ scores_in_projects = \E i \in 1..Len(ps) : Has(ps[i].data, "score")
    /\ lines = << >>
    /\ identifier = IndexId(1)
    /\ emitted = << >>
    /\ hist = << >>
    /\ index = 1
    /\ calls = 1
    /\ run = 1
    /\ prev_report = NoReport

HasError(type) == type \in DOMAIN file_results

-----------------------------------------------------------------------------
(* validate_date_range on its own.                                         *)

Years == { << "2", "0", "2", "3" >>, << "2", "0", "2", "4" >> }

FullDates ==
    { d \o << "." >> \o mo \o << "." >> \o y :
        d \in { << "0", "1" >>, << "3", "1" >> },
        mo \in { << "0", "1" >>, << "1", "2" >> },
        y \in Years }

\* Strings in neither format.
OtherDates ==
    { << >>, << "3", "2", "1", "2", "1", "3" >>,
      << "2", "0", "2", "4", "-", "0", "1", "-", "0", "1" >>,
      << "1", ".", "1", ".", "2", "0", "2", "4" >> }

DateStrings == Years \cup FullDates \cup OtherDates

InitDates ==
    \E b \in DateStrings, e \in DateStrings :
        Called("validate_date_range", << KV("date_begin", b), KV("date_end", e) >>, << >>, << >>)

ValidateDateRange ==
    /\ pc = "validate_date_range"
    /\ Report(validate_date_range(meta), "returned")
    /\ UNCHANGED << files, index, identifier, lines, meta, projects, votes, votes_in_projects,
                    scores_in_projects, counted_votes, counted_scores, run, calls, prev_report >>

SpecDates == InitDates /\ [][ValidateDateRange]_vars

Accepted(date) == is_year(date) \/ is_full_date(date)

\* YYYY becomes YYYY-01-01, DD.MM.YYYY becomes YYYY-MM-DD.
Normalized(date) ==
    IF Len(date) = 4 THEN date \o << "-", "0", "1", "-", "0", "1" >>
    ELSE SubSeq(date, 7, 10) \o << "-" >> \o SubSeq(date, 4, 5) \o << "-" >> \o SubSeq(date, 1, 2)

\* a is lexicographically smaller than b.
LexSmaller(a, b) ==
    \/ Len(a) < Len(b) /\ a = SubSeq(b, 1, Len(a))
    \/ \E i \in 1..Len(a) :
          /\ i <= Len(b)
          /\ SubSeq(a, 1, i - 1) = SubSeq(b, 1, i - 1)
          /\ ord(a[i]) < ord(b[i])

\* C9: when validate_date_range has returned, the report has a
\* `date range missmatch` error if and only if date_begin and date_end are
\* both in an accepted format and the normalized end is lexicographically
\* smaller than the normalized begin; there is at most one such error.
C9_MismatchIffEndBeforeBegin ==
    pc = "returned" =>
        /\ HasError("date range missmatch") <=>
              /\ Accepted(Get(meta, "date_begin"))
              /\ Accepted(Get(meta, "date_end"))
              /\ LexSmaller(Normalized(Get(meta, "date_end")), Normalized(Get(meta, "date_begin")))
        /\ CountType(emitted, "date range missmatch") <= 1

\* C9 (witness): validate_date_range has returned without an error for a
\* year-only begin and a full-date end that normalize to the same date.
C9_Witness ==
    /\ pc = "returned"
    /\ is_year(Get(meta, "date_begin"))
    /\ is_full_date(Get(meta, "date_end"))
    /\ Normalized(Get(meta, "date_begin")) = Normalized(Get(meta, "date_end"))
    /\ ~HasError("date range missmatch")

-----------------------------------------------------------------------------
(* verify_selected on its own.                                             *)

MaxProjects == 3

ProjectCosts == { << "1" >>, << "2" >> }

ProjectResults == { << "1" >>, << "2" >> }

SelectedFlags == { << "0" >>, << "1" >> }

RuleBudgets == { << "2" >>, << "3" >> }

RuleUnits == { << "u" >>, Poznan }

greedy_no_skip == << "g", "r", "e", "e", "d", "y", "-", "n", "o", "-", "s", "k", "i", "p" >>

greedy_threshold ==
    << "g", "r", "e", "e", "d", "y", "-", "t", "h", "r", "e", "s", "h", "o", "l", "d" >>

\* The rule value `unknown`, for which no replay exists.
unknown == << "u", "n", "k", "n", "o", "w", "n" >>

\* A rule value outside the list of rules.
random == << "r", "a", "n", "d", "o", "m" >>

greedy_custom == << "g", "r", "e", "e", "d", "y", "-", "c", "u", "s", "t", "o", "m" >>

Rules == { greedy, greedy_no_skip, greedy_threshold, unknown, random }

\* META min_project_score_threshold: absent, or 2.
Thresholds == { << >>, << "2" >> }

\* The pairs of rule and threshold of the model: a threshold goes with
\* greedy or greedy-threshold.
RuleCases ==
    { rc \in [rule : Rules, threshold : Thresholds] :
        rc.threshold # << >> => rc.rule \in {greedy, greedy_threshold} }

\* Projects 1..n in file order.
RuleProjects ==
    UNION { { [i \in 1..n |-> Project(str(i), c[i], f[i], r[i])] :
                c \in [1..n -> ProjectCosts], f \in [1..n -> SelectedFlags],
                r \in [1..n -> ProjectResults] } :
            n \in 1..MaxProjects }

RuleMeta(budget, unit, rule, threshold) ==
    << KV("unit", unit), KV("budget", budget), KV("rule", rule) >>
        \o (IF threshold = << >> THEN << >>
            ELSE << KV("min_project_score_threshold", threshold) >>)

InitRule ==
    \E budget \in RuleBudgets, unit \in RuleUnits, rc \in RuleCases, ps \in RuleProjects :
        Called("verify_selected", RuleMeta(budget, unit, rc.rule, rc.threshold), ps, << >>)

SpecRule == InitRule /\ [][VerifySelected]_vars

\* The greedy-with-skip replay over projects in walk order: a project is
\* admitted iff its cost is at most the remaining budget.
RECURSIVE Admitted(_, _)
Admitted(ps, remaining) ==
    IF ps = << >> THEN {}
    ELSE LET cost == float(Get(Head(ps).data, "cost"))
         IN  IF cost <= remaining
             THEN {Head(ps).id} \cup Admitted(Tail(ps), remaining - cost)
             ELSE Admitted(Tail(ps), remaining)

\* Result descending, lower id first among equal results.
WalkOrder == sort_projects_by_results(projects)

ReplayAdmitted == Admitted(WalkOrder, float(Get(meta, "budget")))

DeclaredSelected ==
    {projects[i].id : i \in {j \in 1..Len(projects) : int(Get(projects[j].data, "selected")) = 1}}

RECURSIVE SumOfCosts(_)
SumOfCosts(ps) ==
    IF ps = << >> THEN 0 ELSE float(Get(Head(ps).data, "cost")) + SumOfCosts(Tail(ps))

AdmittedInOrder == SelectSeq(WalkOrder, LAMBDA p : p.id \in ReplayAdmitted)

\* verify_selected has returned for rule = greedy.
GreedyVerified == pc = "check_fields" /\ Get(meta, "rule") = greedy

\* C5 (as stated): for rule = greedy on projects with a `selected` column,
\* if no `greedy rule not followed` error is reported then the set of
\* projects declared selected is the set the greedy-with-skip replay admits.
\* It is stated here for the units other than Poznań, for which
\* verify_selected hands rule = greedy to verify_greedy_selected.
C5_NoErrorMeansReplayFollowed ==
    (GreedyVerified /\ Get(meta, "unit") # Poznan /\ ~HasError("greedy rule not followed"))
        => DeclaredSelected = ReplayAdmitted

\* C6: for rule = greedy, whenever the set of projects declared selected is
\* the set the greedy-with-skip replay admits, no `greedy rule not followed`
\* diagnostic is emitted.
C6_ReplayFollowedMeansNoError ==
    (GreedyVerified /\ DeclaredSelected = ReplayAdmitted) => ~HasError("greedy rule not followed")

\* C6 (witness): the greedy verifier has run on a declared set equal to the
\* replay's, where the replay skipped an unaffordable project, admitted a
\* lower-ranked one and used up the budget exactly.
C6_Witness ==
    /\ GreedyVerified
    /\ Get(meta, "unit") # Poznan
    /\ DeclaredSelected = ReplayAdmitted
    /\ \E i, j \in 1..Len(WalkOrder) :
          /\ i < j
          /\ WalkOrder[i].id \notin ReplayAdmitted
          /\ WalkOrder[j].id \in ReplayAdmitted
    /\ SumOfCosts(AdmittedInOrder) = float(Get(meta, "budget"))
    /\ ~HasError("greedy rule not followed")

-----------------------------------------------------------------------------
(* check_votes_and_scores on its own.                                      *)

MaxVoters == 2

\* Ballots: one id, two ids, the same id twice, an id PROJECTS does not list.
Ballots ==
    { << "1" >>, << "2" >>, << "1", ",", "2" >>, << "1", ",", "1" >>, << "9" >>,
      << "2", ",", "9" >> }

DeclaredVotes == { << "0" >>, << "1" >>, << "2" >> }

VoteSets ==
    UNION { { [i \in 1..n |-> Vote(str(i), b[i])] : b \in [1..n -> Ballots] } : n \in 1..MaxVoters }

\* A project of a PROJECTS section without a `votes` column.
ProjectWithoutVotes(id) ==
    [id |-> id, data |-> << KV("project_id", id), KV("cost", << "1" >>), KV("name", << "n" >>) >>]

VotesProjects ==
    { << Project(<< "1" >>, << "1" >>, << >>, v1), Project(<< "2" >>, << "1" >>, << >>, v2) >> :
        v1 \in DeclaredVotes, v2 \in DeclaredVotes }
      \cup { << ProjectWithoutVotes(<< "1" >>), ProjectWithoutVotes(<< "2" >>) >> }

InitVotes ==
    \E ps \in VotesProjects, vs \in VoteSets : Called("check_votes_and_scores", << >>, ps, vs)

SpecVotes == InitVotes /\ [][CheckVotesAndScores]_vars

Ballot(v) == split(Get(votes[v].data, "vote"))

\* The number of times the ballots name the project.
Occurrences(id) ==
    Cardinality({i \in 1..Len(all_references(votes)) : all_references(votes)[i] = id})

\* The number of voters whose ballot contains the project.
VotersFor(id) == Cardinality({v \in 1..Len(votes) : id \in Range(Ballot(v))})

DeclaredVotesOf(i) == int(Get(projects[i].data, "votes"))

\* check_votes_and_scores has returned on a PROJECTS section with a `votes`
\* column without a `different values in votes` error.
VotesAgree ==
    pc = "verify_selected" /\ votes_in_projects /\ ~HasError("different values in votes")

\* C7 (amended): if PROJECTS declares a `votes` column and the report has no
\* `different values in votes` error, then for every project p the declared
\* votes of p equals the number of times the ballots name p (which is the
\* number of voters whose ballot contains p when no ballot names a project
\* twice).
C7_DeclaredEqualsOccurrences ==
    VotesAgree => \A i \in 1..Len(projects) : DeclaredVotesOf(i) = Occurrences(projects[i].id)

\* C7 (witness): the check has passed a file in which one ballot names a
\* project twice.
C7_Witness ==
    /\ VotesAgree
    /\ \E v \in 1..Len(votes) : \E id \in project_ids(projects) : Count(Ballot(v), id) > 1

\* C7 (as stated): if PROJECTS declares a `votes` column and the report has
\* no `different values in votes` error, then for every project p the
\* declared votes of p equals the number of voters whose ballot contains p.
C7_DeclaredEqualsVoters ==
    VotesAgree => \A i \in 1..Len(projects) : DeclaredVotesOf(i) = VotersFor(projects[i].id)

-----------------------------------------------------------------------------
(* Advisory diagnostics and duplicated ballots in process_files.           *)

\* The diagnostics the specification calls advisory: blank lines, and known
\* fields in a non-canonical order.
AdvisoryTypes ==
    { "empty lines", "empty lines removed", "wrong meta fields order",
      "wrong projects fields order", "wrong votes fields order" }

OnlyAdvisory(diags) == \A i \in 1..Len(diags) : diags[i].type \in AdvisoryTypes

\* C11 (as stated): when the first process_files call has returned on files
\* none of which is named `metadata` or `summary`, metadata.valid counts
\* every processed entry all of whose diagnostics are advisory, and
\* metadata.invalid counts the other processed entries.
C11_OnlyWarningsIsValid ==
    (pc = "done" /\ calls = 1
        /\ \A i \in 1..Len(files) : files[i].name \notin {"metadata", "summary"}) =>
        /\ results[MetadataKey].valid
              = Cardinality({i \in Completed : OnlyAdvisory(hist[i].emitted)})
        /\ results[MetadataKey].invalid
              = Cardinality({i \in Completed : ~OnlyAdvisory(hist[i].emitted)})

\* The voters whose ballot lists a project id more than once.
VotersWithDuplicates ==
    {v \in 1..Len(votes) :
        LET ballot == split(Get(votes[v].data, "vote"))
        IN  Len(ballot) > Cardinality(Range(ballot))}

\* C19 (as stated): when all checks of a file have run, the file's record
\* holds a `vote with duplicated projects` error for every voter whose ballot
\* lists a project id more than once.
C19_DuplicatedVotesReported ==
    pc = "record" =>
        \A v \in VotersWithDuplicates :
            \E key \in DOMAIN GetOr(file_results, "vote with duplicated projects", << >>) :
                file_results["vote with duplicated projects"][key].raw[1] = votes[v].voter

-----------------------------------------------------------------------------
(* Rules other than plain greedy in verify_selected.                       *)

\* verify_selected has returned on a unit other than Poznań.
RuleVerified == pc = "check_fields" /\ Get(meta, "unit") # Poznan

HasThreshold == Has(meta, "min_project_score_threshold")

\* The projects declared selected whose result value is below the threshold.
BelowThreshold ==
    {i \in 1..Len(projects) :
        /\ int(Get(projects[i].data, "selected")) = 1
        /\ result_value(projects[i]) < int(Get(meta, "min_project_score_threshold"))}

\* The error of the given type names the project.
ErrorNames(type, id) ==
    \E key \in DOMAIN GetOr(file_results, type, << >>) : id \in Range(file_results[type][key].raw)

\* C12 (as stated): when verify_selected has returned for rule = greedy or
\* greedy-threshold with min_project_score_threshold = T in META, every
\* project with selected = 1 and a result value below T is named by a
\* `threshold violation` error.
C12_ThresholdViolationReported ==
    (RuleVerified /\ HasThreshold /\ Get(meta, "rule") \in {greedy, greedy_threshold}) =>
        \A i \in BelowThreshold : ErrorNames("threshold violation", projects[i].id)

\* The replay of greedy-no-skip over projects in walk order: it stops at the
\* first project whose cost exceeds the remaining budget.
RECURSIVE AdmittedNoSkip(_, _)
AdmittedNoSkip(ps, remaining) ==
    IF ps = << >> THEN {}
    ELSE LET cost == float(Get(Head(ps).data, "cost"))
         IN  IF cost <= remaining
             THEN {Head(ps).id} \cup AdmittedNoSkip(Tail(ps), remaining - cost)
             ELSE {}

\* C13 (as stated): when verify_selected has returned for rule =
\* greedy-no-skip and the declared selected set differs from the set of the
\* no-skip replay, the error `greedy-no-skip rule not followed` is reported.
C13_NoSkipDivergenceReported ==
    (RuleVerified /\ Get(meta, "rule") = greedy_no_skip
        /\ DeclaredSelected # AdmittedNoSkip(WalkOrder, float(Get(meta, "budget"))))
        => HasError("greedy-no-skip rule not followed")

\* The rule values of the specification; greedy-exclusive, equalshares and
\* equalshares/add1 are not rule values of the model.
ListedRules == { greedy, greedy_no_skip, greedy_threshold, greedy_custom, unknown }

\* C14 (as stated): when verify_selected has returned on projects with a
\* `selected` column and a rule outside the list, the error
\* `unknown rule value` is reported.
C14_UnknownRuleReported ==
    (RuleVerified /\ Get(meta, "rule") \notin ListedRules) => HasError("unknown rule value")

-----------------------------------------------------------------------------
(* verify_selected on files of the unit Poznań.                            *)

PoznanCosts == { << "4" >>, << "5" >> }

PoznanBudgets == { << "8" >>, << "9" >> }

\* selected: 2 marks a project funded by the 80% rule.
PoznanFlags == { << "0" >>, << "1" >>, << "2" >> }

\* Projects 1..n in file order.
PoznanProjects ==
    UNION { { [i \in 1..n |-> Project(str(i), c[i], f[i], r[i])] :
                c \in [1..n -> PoznanCosts], f \in [1..n -> PoznanFlags],
                r \in [1..n -> ProjectResults] } :
            n \in 1..MaxProjects }

InitPoznan ==
    \E budget \in PoznanBudgets, ps \in PoznanProjects :
        Called("verify_selected", RuleMeta(budget, Poznan, greedy_custom, << >>), ps, << >>)

SpecPoznan == InitPoznan /\ [][VerifySelected]_vars

\* The Poznań replay over projects in walk order: a project is admitted when
\* its cost is at most the remaining budget; the first project that does not
\* fit is admitted by the 80% rule or not, and nothing is admitted after it.
\* of_budget chooses the 80% rule: cost <= 0.8 * remaining when TRUE,
\* 0.8 * cost <= remaining when FALSE.
RECURSIVE AdmittedPoznan(_, _, _)
AdmittedPoznan(ps, remaining, of_budget) ==
    IF ps = << >> THEN {}
    ELSE LET cost == float(Get(Head(ps).data, "cost"))
         IN  IF cost <= remaining
             THEN {Head(ps).id} \cup AdmittedPoznan(Tail(ps), remaining - cost, of_budget)
             ELSE IF of_budget
             THEN (IF cost * 10 <= remaining * 8 THEN {Head(ps).id} ELSE {})
             ELSE (IF cost * 8 <= remaining * 10 THEN {Head(ps).id} ELSE {})

\* The projects declared selected, by the replay or by the 80% rule.
DeclaredPoznan ==
    {projects[i].id :
        i \in {j \in 1..Len(projects) : int(Get(projects[j].data, "selected")) \in {1, 2}}}

\* verify_selected has returned on a file of the unit Poznań.
PoznanVerified == pc = "check_fields" /\ Get(meta, "unit") = Poznan

RemainingAt(j) == float(Get(meta, "budget")) - SumOfCosts(SubSeq(WalkOrder, 1, j - 1))

-----------------------------------------------------------------------------
(* check_budgets on its own.                                               *)

BudgetValues == { << "3" >>, << "4" >> }

\* META fully_funded: absent, 0 or 1.
FullyFundedFlags == { << >>, << "0" >>, << "1" >> }

BudgetMeta(budget, fully_funded, threshold) ==
    << KV("budget", budget), KV("rule", greedy) >>
        \o (IF fully_funded = << >> THEN << >> ELSE << KV("fully_funded", fully_funded) >>)
        \o (IF threshold = << >> THEN << >>
            ELSE << KV("min_project_score_threshold", threshold) >>)

InitBudgets ==
    \E budget \in BudgetValues, fully_funded \in FullyFundedFlags, threshold \in Thresholds,
       ps \in RuleProjects :
        Called("check_budgets", BudgetMeta(budget, fully_funded, threshold), ps, << >>)

SpecBudgets == InitBudgets /\ [][CheckBudgets]_vars

\* check_budgets has returned.
BudgetsChecked == pc = "check_number_of_votes"

FullyFunded == Has(meta, "fully_funded") /\ int(Get(meta, "fully_funded")) = 1

IsSelected(p) == int(Get(p.data, "selected")) = 1

\* The budget left after the cost of the selected projects.
BudgetRemainder ==
    float(Get(meta, "budget")) - SumOfCosts(SelectSeq(projects, LAMBDA p : IsSelected(p)))

AboveThreshold(p) ==
    HasThreshold => result_value(p) >= int(Get(meta, "min_project_score_threshold"))

\* The unselected projects with result >= threshold, in result-descending
\* order.
SimulationOrder == SelectSeq(WalkOrder, LAMBDA p : ~IsSelected(p) /\ AboveThreshold(p))

\* The projects the greedy simulation admits from the remainder.
SimulationAdmits == Admitted(SimulationOrder, BudgetRemainder)

\* The projects named by the `unused budget` diagnostics.
NamedUnused ==
    {file_results["unused budget"][key].raw[1] :
        key \in DOMAIN GetOr(file_results, "unused budget", << >>)}

\* C16 (as stated): when check_budgets has returned on a file without
\* fully_funded and without a threshold, the `unused budget` diagnostics name
\* exactly the unselected projects that the greedy simulation admits from the
\* budget left by the selected projects.
C16_UnusedIsSimulation ==
    (BudgetsChecked /\ ~Has(meta, "fully_funded") /\ ~HasThreshold)
        => NamedUnused = SimulationAdmits

\* C17 (as stated): when check_budgets has returned, `all projects funded` is
\* reported iff fully_funded is not 1 and the budget is at least the sum of
\* all project costs.
C17_AllFundedIffBudgetCovers ==
    BudgetsChecked =>
        (HasError("all projects funded")
            <=> (~FullyFunded /\ float(Get(meta, "budget")) >= SumOfCosts(projects)))

\* C18 (as stated): when check_budgets has returned with fully_funded = 1 and
\* the sum of all project costs greater than the budget, the error
\* `wrong fully_funded flag` is reported.
C18_WrongFlagReported ==
    (BudgetsChecked /\ FullyFunded /\ SumOfCosts(projects) > float(Get(meta, "budget")))
        => HasError("wrong fully_funded flag")

-----------------------------------------------------------------------------
(* check_vote_length on its own.                                           *)

\* Ballots of one, two and three ids.
LengthBallots == { << "1" >>, << "1", ",", "2" >>, << "1", ",", "2", ",", "3" >> }

LengthVotes ==
    UNION { { [i \in 1..n |-> Vote(str(i), b[i])] : b \in [1..n -> LengthBallots] } :
            n \in 1..MaxVoters }

LengthValues == { << "2" >>, << "3" >> }

MinKeys == << "min_length", "min_length_unit", "min_length_district" >>

MaxKeys == << "max_length", "max_length_unit", "max_length_district" >>

\* No limit, or one of the three keys with a value.
Limits(keys) == { << >> } \cup { << KV(keys[i], v) >> : i \in 1..3, v \in LengthValues }

InitVoteLength ==
    \E lower \in Limits(MinKeys), upper \in Limits(MaxKeys), vs \in LengthVotes :
        Called("check_vote_length", lower \o upper, << >>, vs)

SpecVoteLength == InitVoteLength /\ [][CheckVoteLength]_vars

\* check_vote_length has returned.
VoteLengthChecked == pc = "check_votes_and_scores"

\* The first of the three keys that META carries.
Effective(keys) ==
    IF Has(meta, keys[1]) THEN Get(meta, keys[1])
    ELSE IF Has(meta, keys[2]) THEN Get(meta, keys[2])
    ELSE Get(meta, keys[3])

HasLimit(keys) == \E i \in 1..3 : Has(meta, keys[i])

\* The number of errors of the type that name the voter.
ErrorsNaming(type, voter) ==
    Cardinality({key \in DOMAIN GetOr(file_results, type, << >>) :
                    file_results[type][key].raw[1] = voter})

TooShort(v) == HasLimit(MinKeys) /\ Len(Ballot(v)) < int(Effective(MinKeys))

TooLong(v) == HasLimit(MaxKeys) /\ Len(Ballot(v)) > int(Effective(MaxKeys))

\* C20 (as stated): when check_vote_length has returned, every voter whose
\* ballot has fewer ids than the effective minimum has exactly one
\* `vote length too short` error, every voter whose ballot has more ids than
\* the effective maximum has exactly one `vote length exceeded` error, and no
\* other voter has such an error.
C20_OneErrorPerBallotOutOfRange ==
    VoteLengthChecked =>
        \A v \in 1..Len(votes) :
            /\ ErrorsNaming("vote length too short", votes[v].voter) = (IF TooShort(v) THEN 1 ELSE 0)
            /\ ErrorsNaming("vote length exceeded", votes[v].voter) = (IF TooLong(v) THEN 1 ELSE 0)

-----------------------------------------------------------------------------
(* check_empty_lines on its own.                                           *)

MaxLines == 4

\* A line with content, an empty line, a line of white space.
LineKinds == { "x", "", " " }

LineLists == UNION { [1..n -> LineKinds] : n \in 1..MaxLines }

\* A method called on a new Checker whose lines, meta, projects and votes the
\* caller has set from the content; files keeps the content as the caller
\* built it.
CalledOn(position, content) ==
    /\ files = << RawContent(content) >>
    /\ pc = position
    /\ results = post_init_results
    /\ error_counters = EmptyDict
    /\ counted_votes = << >>
    /\ counted_scores = << >>
    /\ file_results = EmptyDict
    /\ lines = content.lines
    /\ meta = content.meta
    /\ projects = content.projects
    /\ votes = content.votes
    /\ votes_in_projects = parse_pb_lines(RawContent(content)).votes_in_projects
    /\ scores_in_projects = parse_pb_lines(RawContent(content)).scores_in_projects
    /\ identifier = IndexId(1)
    /\ emitted = << >>
    /\ hist = << >>
    /\ index = 1
    /\ calls = 1
    /\ run = 1
    /\ prev_report = NoReport

InitLines ==
    \E ls \in LineLists : CalledOn("check_empty_lines", Content(ls, << >>, << >>, << >>))

SpecLines == InitLines /\ [][CheckEmptyLines]_vars

\* check_empty_lines has returned.
LinesChecked == pc = "check_if_commas_in_floats"

\* The list as the caller built it.
OriginalLines == files[1].content.lines

IsBlank(line) == line \in { "", " " }

NonBlank(ls) == SelectSeq(ls, LAMBDA line : ~IsBlank(line))

\* A blank line that is followed by a line with content.
HasInnerBlank(ls) == \E i, j \in 1..Len(ls) : i < j /\ IsBlank(ls[i]) /\ ~IsBlank(ls[j])

\* C21 (as stated): when check_empty_lines has returned, the list is the
\* original non-blank lines in their original order; every diagnostic it
\* added has the type `empty lines removed`; a blank line inside the text is
\* reported, and a list without blank lines is not.
C21_BlankLinesRemoved ==
    LinesChecked =>
        /\ lines = NonBlank(OriginalLines)
        /\ \A i \in 1..Len(emitted) : emitted[i].type = "empty lines removed"
        /\ HasInnerBlank(OriginalLines) => emitted # << >>
        /\ NonBlank(OriginalLines) = OriginalLines => emitted = << >>

-----------------------------------------------------------------------------
(* check_if_commas_in_floats followed by check_budgets.                    *)

\* META budget: no comma, a comma before the decimals, a comma between the
\* thousands with and without decimals after a dot.
CommaBudgets ==
    { << "1", "0", "0", "0" >>, << "1", "0", "0", "0", ",", "5" >>,
      << "1", ",", "0", "0", "0" >>, << "1", ",", "0", "0", "0", ".", "5", "0" >> }

InitCommas ==
    \E budget \in CommaBudgets, ps \in RuleProjects :
        CalledOn("check_if_commas_in_floats",
                 Content(<< >>, BudgetMeta(budget, << >>, << >>), ps, << >>))

SpecCommas == InitCommas /\ [][CheckIfCommasInFloats \/ CheckBudgets]_vars

\* The budget as the file gives it.
OriginalBudget == Get(files[1].content.meta, "budget")

\* The numeral without its commas.
WithoutCommas(s) == SelectSeq(s, LAMBDA ch : ch # ",")

\* check_if_commas_in_floats has returned, and check_budgets after it has
\* returned or raised.
CommasChecked == pc \in {"check_budgets", "check_number_of_votes", "raised"}

\* C22 (as stated): when check_if_commas_in_floats has run on a budget with
\* a comma, `comma in float!` with detail "in budget" is in the report, a
\* budget with commas between the thousands and a dot before the decimals is
\* repaired to the numeral without the commas, and check_budgets does not
\* raise on the repaired value.
C22_CommaBudgetRepaired ==
    (CommasChecked /\ Contains(OriginalBudget, ",")) =>
        /\ \E i \in 1..Len(emitted) :
              emitted[i] = Diag("comma in float!", Details("in budget", << >>, << >>))
        /\ Contains(OriginalBudget, ".") => Get(meta, "budget") = WithoutCommas(OriginalBudget)
        /\ pc # "raised"

-----------------------------------------------------------------------------
(* The order of the steps of a file's pass.                                *)

\* The checks of a pass, from check_empty_lines to check_fields.
InChecks ==
    pc \in {"check_empty_lines", "check_if_commas_in_floats", "check_budgets",
            "check_number_of_votes", "check_number_of_projects", "check_vote_length",
            "check_votes_and_scores", "verify_selected", "check_fields"}

EmptyNumVotes == Has(meta, "num_votes") /\ ~Truthy(Get(meta, "num_votes"))

\* C23 (as stated): no check of the pass of a file whose num_votes is present
\* and empty stops the pass: each check hands over to the next one, up to the
\* step that records the file.
C23_NoCheckStopsThePass == [][(InChecks /\ EmptyNumVotes) => pc' # "raised"]_vars

-----------------------------------------------------------------------------
(* check_fields on its own.                                                *)

\* The sequence with the elements at i and i + 1 exchanged; itself for i = 0.
SwapAt(s, i) ==
    IF i = 0 THEN s
    ELSE [j \in 1..Len(s) |-> IF j = i THEN s[i + 1] ELSE IF j = i + 1 THEN s[i] ELSE s[j]]

\* The sequence with x put in at position i; itself for i = 0.
InsertAt(s, i, x) == IF i = 0 THEN s ELSE SubSeq(s, 1, i - 1) \o << x >> \o SubSeq(s, i, Len(s))

\* A key the schema of META does not know.
UnknownField == KV("zzz", << "z" >>)

\* META of a well-formed file, with two neighbouring keys exchanged or not
\* and an unknown key put in or not.
FieldMetas ==
    { InsertAt(SwapAt(MetaOf(<< "5", "0", "0" >>, << "1" >>), i), j, UnknownField) :
        i \in 0..10, j \in {0, 1, 6} }

\* Two projects with the same columns, two neighbouring columns exchanged or
\* not.
FieldProjects ==
    { [p \in 1..2 |-> [TwoProjects(<< "1" >>, << "0" >>)[p] EXCEPT !.data = SwapAt(@, i)]] :
        i \in 0..4 }

SexValues == { << "M" >>, << "X" >> }

\* Voters 1..n with the columns vote;sex or sex;vote.
FieldVotes ==
    UNION { { [v \in 1..n |-> [voter |-> str(v),
                               data |-> SwapAt(<< KV("vote", << "1" >>), KV("sex", sx[v]) >>, i)]] :
                sx \in [1..n -> SexValues], i \in 0..1 } :
            n \in 1..MaxVoters }

InitFields ==
    \E m \in FieldMetas, ps \in FieldProjects, vs \in FieldVotes :
        CalledOn("check_fields", Content(<< >>, m, ps, vs))

SpecFields == InitFields /\ [][CheckFields]_vars

\* check_fields has returned.
FieldsChecked == pc = "record"

Sections == { "meta", "projects", "votes" }

\* The fields of a section of the model, in model order.
SectionData(section) ==
    CASE section = "meta" -> meta
      [] section = "projects" -> projects[1].data
      [] section = "votes" -> << KV("voter_id", << "p" >>) >> \o votes[1].data

SectionSchema(section) ==
    CASE section = "meta" -> META_FIELDS_ORDER
      [] section = "projects" -> PROJECTS_FIELDS_ORDER
      [] section = "votes" -> VOTES_FIELDS_ORDER

WrongOrderType(section) ==
    CASE section = "meta" -> "wrong meta fields order"
      [] section = "projects" -> "wrong projects fields order"
      [] section = "votes" -> "wrong votes fields order"

\* The position of a field name in the schema.
CanonicalIndex(schema, name) == CHOOSE i \in 1..Len(schema) : schema[i].k = name

\* The section's field names that the schema knows, in model order.
KnownFields(section) ==
    SelectSeq([i \in 1..Len(SectionData(section)) |-> SectionData(section)[i].k],
              LAMBDA name : \E i \in 1..Len(SectionSchema(section)) :
                                SectionSchema(section)[i].k = name)

\* The known fields are a subsequence of the canonical order.
InCanonicalOrder(section) ==
    \A i, j \in 1..Len(KnownFields(section)) :
        i < j => CanonicalIndex(SectionSchema(section), KnownFields(section)[i])
                    < CanonicalIndex(SectionSchema(section), KnownFields(section)[j])

\* C24 (as stated): when check_fields has returned on a file whose sections
\* have their fields in canonical order and in which some voter's record has
\* a sex outside {M, F, O}, the report contains an `invalid votes field value`
\* error.
C24_EveryBallotValidated ==
    (FieldsChecked
        /\ meta = MetaOf(<< "5", "0", "0" >>, << "1" >>)
        /\ InCanonicalOrder("projects") /\ InCanonicalOrder("votes")
        /\ \E v \in 1..Len(votes) :
              Get(votes[v].data, "sex") \notin {<< "M" >>, << "F" >>, << "O" >>})
        => HasError("invalid votes field value")

\* When check_fields has returned, each section has one `wrong <section>
\* fields order` diagnostic if its known fields are not in canonical relative
\* order, and none if they are.
WrongOrderIffNotCanonical ==
    FieldsChecked =>
        \A section \in Sections :
            CountType(emitted, WrongOrderType(section))
                = (IF InCanonicalOrder(section) THEN 0 ELSE 1)

\* C26 (as stated): each section has one `wrong <section> fields order`
\* diagnostic exactly when its known fields are not in canonical relative
\* order, and the diagnostic is a warning: it is not recorded among the
\* errors of the file.
C26_WrongOrderIsWarning ==
    /\ WrongOrderIffNotCanonical
    /\ FieldsChecked => \A section \in Sections : ~HasError(WrongOrderType(section))

FieldTypes ==
    { "missing meta obligatory field", "missing projects obligatory field",
      "missing votes obligatory field", "not known meta fields", "not known projects fields",
      "not known votes fields", "wrong meta fields order", "wrong projects fields order",
      "wrong votes fields order", "invalid meta field value", "invalid projects field value",
      "invalid votes field value", "date range missmatch" }

RuleTypes == { "greedy rule not followed", "poznan rule not followed" }

\* The step a diagnostic type belongs to: 0 line scanning, 1 field
\* validation, 2 consistency checks, 3 rule verification.
StepOf(type) ==
    IF type = "empty lines" THEN 0
    ELSE IF type \in FieldTypes THEN 1
    ELSE IF type \in RuleTypes THEN 3
    ELSE 2

\* C25 (as stated): at every point of a pass, in the diagnostics emitted so
\* far those of line scanning come before those of field validation, which
\* come before those of the consistency checks, which come before those of
\* rule verification.
C25_StepsInOrder ==
    \A i, j \in 1..Len(emitted) : i < j => StepOf(emitted[i].type) <= StepOf(emitted[j].type)

-----------------------------------------------------------------------------
(* The growth of the global report.                                        *)

IsCounters(r) == r[MetadataKey].kind = "metadata"

IsCountMap(r) == r[SummaryKey].kind = "summary"

\* The identifiers under which the report holds a per-file entry.
FileKeys(r) == DOMAIN r \ {MetadataKey, SummaryKey}

\* C27 (as stated): every step of a Checker leaves the metadata entry the
\* counters record with processed, valid and invalid not decreased, leaves
\* the summary entry the count map with no count decreased, keeps every
\* per-file entry as it is, and keeps the number of per-file entries equal to
\* metadata.processed between two entries.
C27_ReportOnlyGrows ==
    [][run' = run =>
        /\ IsCounters(results')
        /\ IsCounters(results) =>
              /\ results'[MetadataKey].processed >= results[MetadataKey].processed
              /\ results'[MetadataKey].valid >= results[MetadataKey].valid
              /\ results'[MetadataKey].invalid >= results[MetadataKey].invalid
        /\ IsCountMap(results')
        /\ IsCountMap(results) =>
              \A t \in DOMAIN results[SummaryKey].counts :
                  /\ t \in DOMAIN results'[SummaryKey].counts
                  /\ results'[SummaryKey].counts[t] >= results[SummaryKey].counts[t]
        /\ \A key \in FileKeys(results) :
              key \in FileKeys(results') /\ results'[key] = results[key]
        /\ pc' = "loop" => Cardinality(FileKeys(results')) = results'[MetadataKey].processed
    ]_vars

-----------------------------------------------------------------------------
(* The choice of the replay in verify_selected.                            *)

\* C28 (as stated): when verify_selected has returned for rule = greedy with
\* unit = Poznań, no `poznan rule not followed` error is reported, and a
\* declared set that differs from the set of the greedy-with-skip replay is
\* reported as `greedy rule not followed`.
C28_ReplayChosenByRule ==
    (GreedyVerified /\ Get(meta, "unit") = Poznan) =>
        /\ ~HasError("poznan rule not followed")
        /\ DeclaredSelected # ReplayAdmitted => HasError("greedy rule not followed")

-----------------------------------------------------------------------------
(* The counters of the metadata entry and the reserved entries.            *)

\* The calls of Spec and, in addition, calls of process_files([]).
SpecCalls == Init /\ [][Next \/ CallWithNoFiles]_vars

\* Between two entries of a batch, or process_files has returned.
BetweenEntries == pc = "done" \/ (pc = "loop" /\ index > 1)

\* The counters agree, in every state in which the metadata entry is the
\* record of the counters, and every step that completes an entry increases
\* processed by 1 and exactly one of valid and invalid by 1.
CountersAgreeWhileKept ==
    /\ [](IsCounters(results) =>
            results[MetadataKey].processed
               = results[MetadataKey].valid + results[MetadataKey].invalid)
    /\ [][(pc = "record" /\ pc' = "loop") =>
            /\ results'[MetadataKey].processed = results[MetadataKey].processed + 1
            /\ \/ /\ results'[MetadataKey].valid = results[MetadataKey].valid + 1
                  /\ results'[MetadataKey].invalid = results[MetadataKey].invalid
               \/ /\ results'[MetadataKey].valid = results[MetadataKey].valid
                  /\ results'[MetadataKey].invalid = results[MetadataKey].invalid + 1
          ]_vars

\* C29 (as stated): at every point between two entries of a batch and when
\* process_files returns, the metadata entry holds the counters and
\* metadata.processed = metadata.valid + metadata.invalid.
C29_CountersAgree ==
    BetweenEntries =>
        /\ IsCounters(results)
        /\ results[MetadataKey].processed
              = results[MetadataKey].valid + results[MetadataKey].invalid

\* C30 (as stated): when process_files has returned, the `metadata` entry of
\* the report is the record of the three counters and its `summary` entry is
\* the per-type count map.
C30_ReservedEntriesKept ==
    pc = "done" => (IsCounters(results) /\ IsCountMap(results))

=============================================================================
